---- MODULE Spec2Model ----
(***************************************************************************)
(* Model of the multi-backend user repository of the FastAPI benchmark     *)
(* server: the four storage adapters (postgres, mongodb, redis, cassandra) *)
(* behind the UserRepository protocol, and the process-wide registry that  *)
(* resolves a backend tag to its lazily constructed adapter.               *)
(*                                                                         *)
(* One adapter operation is a coroutine: it runs without interruption up   *)
(* to its next awaited store call.  Every awaited store call is one step   *)
(* of the model (pc names the call a task is about to make), so tasks      *)
(* interleave exactly at the awaits of the source.                         *)
(***************************************************************************)
EXTENDS Integers, Sequences, FiniteSets, TLC

\* ------------------------------------------------------------------ bounds
\* number of ids the id generators hand out in one run
MaxIds == 2
\* number of request tasks
NumTasks == 2
\* adapters constructed per backend tag in one run
MaxBuilds == 2
\* calls started in one run of concurrent handlers
MaxCalls == 3
MaxCallers == 5

Tasks == 1..NumTasks

\* ------------------------------------------------------------- data model
DATABASE_TYPES == <<"postgres", "mongodb", "redis", "cassandra">>

Backends == {DATABASE_TYPES[i] : i \in 1..Len(DATABASE_TYPES)}

\* Optional values: None is the empty sequence, a present value v is <<v>>.
None == <<>>

Some(v) == <<v>>

IsNone(o) == o = <<>>

Get(o) == o[1]

\* The payloads the callers send: validated CreateUser and UpdateUser values
\* (name of length >= 1, email well formed, favoriteNumber in 0..100 or None).
\* Creates and patches draw from different values, so a patched field shows.
CreateUser == [name : {"Ada"}, email : {"ada@x.io"},
               favoriteNumber : {None, Some(0)}]

UpdateUser == [name : {None, Some("Bob")},
               email : {None, Some("bob@x.io")},
               favoriteNumber : {None, Some(0), Some(42)}]

NoData == [name |-> None, email |-> None, favoriteNumber |-> None]

\* External id strings.  "canon" is the string str() gives for native id n,
\* "upper" the same hex digits in upper case, "junk" a string that is no id
\* of any format ("not-a-valid-id-format").
FormatId(n) == [form |-> "canon", n |-> n]

JunkId == [form |-> "junk", n |-> 0]

\* the id slot of a call that takes no id
NoId == [form |-> "", n |-> 0]

IdStrings == [form : {"canon", "upper"}, n : 1..MaxIds] \cup {JunkId}

\* pydantic User(id=, name=, email=, favoriteNumber=): name and email are
\* required strings, so a None there is a ValidationError.
MakeUser(id, name, email, fav) ==
    IF IsNone(name) \/ IsNone(email)
    THEN [exc |-> "ValidationError", user |-> None]
    ELSE [exc |-> "",
          user |-> Some([id |-> id, name |-> Get(name), email |-> Get(email),
                         favoriteNumber |-> fav])]

build_user(id, data) ==
    MakeUser(id, Some(data.name), Some(data.email), data.favoriteNumber)

\* What an operation hands back to its caller.
RetUser(u) == [kind |-> "user", user |-> Some(u), ok |-> TRUE, exc |-> ""]

RetNone == [kind |-> "none", user |-> None, ok |-> FALSE, exc |-> ""]

RetBool(b) == [kind |-> "bool", user |-> None, ok |-> b, exc |-> ""]

RetVoid == [kind |-> "void", user |-> None, ok |-> TRUE, exc |-> ""]

RetRaise(e) == [kind |-> "raise", user |-> None, ok |-> FALSE, exc |-> e]

Pending == [kind |-> "pending", user |-> None, ok |-> FALSE, exc |-> ""]

\* User(...) built from stored values: a user, or the ValidationError raised.
RetMade(m) == IF m.exc = "" THEN RetUser(Get(m.user)) ELSE RetRaise(m.exc)

\* A stored row: every column is optional (NULL / field absent is None).
Row(name, email, fav) == [name |-> name, email |-> email, fav |-> fav]

NoLoc == [key |-> 0, row |-> None, n |-> 0, keys |-> {}, stmt |-> "", user |-> None]

VARIABLES
    backend,    \* the adapter under test (fixed in a run)
    store,      \* the backend's users: native key -> row
    pgLock,     \* postgres: row key -> task whose open transaction locks it
    conn,       \* the adapter's client/session object exists
    connects,   \* client/session objects created so far
    nextId,     \* next value of the id generator (uuid7 / ObjectId)
    pc, op, arg, data, loc, ret,   \* per task: position, call, locals, result
    store0,     \* history: the store when the task's call started
    created,    \* history: the ids create has returned
    fresh,      \* history: id -> User returned by create, for the ids no
                \* update, delete or delete_all was started on since
    removed,    \* history: the ids a delete has returned True for
    wiped,      \* history: the ids created before a delete_all that returned
    patched,    \* history: id -> User returned by update(str(id), ..), for
                \* the ids no update, delete or delete_all was started on since
    calls,      \* calls started so far by the concurrent handlers
    repositories,  \* _repositories: <<[tag, inst]>> in insertion order
    adapters,   \* the adapters still referenced: inst -> [client]
    built,      \* history: tag -> adapters constructed so far
    sinceClear, \* history: tag -> adapters constructed since the last clear()
    got,        \* per task: what its resolve_repository call returned
    dpc, diter, dret,   \* disconnect_databases: position, dict iterator (with
                        \* the registry it started on, as history), outcome
    dcalls,     \* history: the adapters its run has called disconnect on
    ipc, probes, \* initialize_databases: position, the gathered health checks
    route,      \* per task: the db route function that serves its request
    resp,       \* per task: the response to its request
    lazy,       \* history: the tags resolve_repository was called with
                \* (asked) and whether initialize_databases ran (eager), both
                \* since the last clear()
    executor    \* cassandra's self._executor: work queue, worker threads, and
                \* per caller of _execute the job it awaits and its future

storeVars == <<store, pgLock>>
connVars == <<conn, connects>>
taskVars == <<pc, op, arg, data, loc, ret>>
histVars == <<store0, created, fresh, removed, wiped, patched>>
regVars == <<repositories, adapters, built, sinceClear, got, dpc, diter, dret,
             dcalls, ipc, probes, route, resp, lazy, executor>>
\* what the registry's own steps leave alone
restVars == <<backend, store, pgLock, conn, connects, nextId,
              pc, op, arg, data, loc, ret, store0, created, fresh, removed, wiped, patched,
              calls, route, resp, executor>>
repoVars == <<backend, store, pgLock, conn, connects, nextId,
              pc, op, arg, data, loc, ret, store0, created, fresh, removed, wiped, patched,
              calls, route, resp, lazy, executor>>
vars == <<backend, store, pgLock, conn, connects, nextId,
          pc, op, arg, data, loc, ret, store0, created, fresh, removed, wiped, patched,
          calls, repositories, adapters, built, sinceClear, got, dpc, diter, dret,
          dcalls, ipc, probes, route, resp, lazy, executor>>

\* ------------------------------------------------------------ store access
Exists(k) == k \in DOMAIN store

Put(st, k, row) == [x \in DOMAIN st \cup {k} |-> IF x = k THEN row ELSE st[x]]

Remove(st, ks) == [x \in DOMAIN st \ ks |-> st[x]]

EmptyStore == [x \in {} |-> Row(None, None, None)]

\* ------------------------------------------------------------ task helpers
Finish(t, r) ==
    /\ pc' = [pc EXCEPT ![t] = "done"]
    /\ ret' = [ret EXCEPT ![t] = r]

Goto(t, label) ==
    /\ pc' = [pc EXCEPT ![t] = label]
    /\ UNCHANGED ret

SetLoc(t, l) == loc' = [loc EXCEPT ![t] = l]

\* ------------------------------------------------------ postgres adapter
\* uuid.UUID(id): the hex digits in either case; anything else ValueError.
UUID(id) ==
    IF id.form \in {"canon", "upper"}
    THEN [exc |-> "", n |-> id.n]
    ELSE [exc |-> "ValueError", n |-> 0]

\* Faulty variant of PgParseUuid, used to test C5: the ValueError escapes.
PgParseUuidNoCatch(id) == UUID(id)

\* _parse_uuid: None (0) on ValueError.
PgParseUuid(id) ==
    LET u == UUID(id) IN
    IF u.exc = "ValueError" THEN [exc |-> "", n |-> 0] ELSE u

\* UserModel.to_user
PgToUser(k, row) == MakeUser(FormatId(k), row.name, row.email, row.fav)

PostgresCreate(t, d) ==
    /\ nextId <= MaxIds
    /\ nextId' = nextId + 1
    /\ SetLoc(t, [NoLoc EXCEPT !.key = nextId,
                  !.row = Some(Row(Some(d.name), Some(d.email), d.favoriteNumber))])
    /\ Goto(t, "pg_create_commit")
    /\ UNCHANGED connVars

PgCreateCommit(t) ==
    /\ pc[t] = "pg_create_commit"
    /\ store' = Put(store, loc[t].key, Get(loc[t].row))
    /\ Finish(t, RetMade(PgToUser(loc[t].key, Get(loc[t].row))))
    /\ UNCHANGED <<pgLock, loc, connVars, nextId>>

PostgresFindById(t, id) ==
    LET u == PgParseUuid(id) IN
    /\ IF u.exc # "" THEN Finish(t, RetRaise(u.exc)) /\ UNCHANGED loc
       ELSE IF u.n = 0 THEN Finish(t, RetNone) /\ UNCHANGED loc
       ELSE Goto(t, "pg_find_select") /\ SetLoc(t, [NoLoc EXCEPT !.key = u.n])
    /\ UNCHANGED <<connVars, nextId>>

PgFindSelect(t) ==
    /\ pc[t] = "pg_find_select"
    /\ IF Exists(loc[t].key)
       THEN Finish(t, RetMade(PgToUser(loc[t].key, store[loc[t].key])))
       ELSE Finish(t, RetNone)
    /\ UNCHANGED <<storeVars, loc, connVars, nextId>>

PostgresUpdate(t, id, d) ==
    LET u == PgParseUuid(id) IN
    /\ IF u.exc # "" THEN Finish(t, RetRaise(u.exc)) /\ UNCHANGED loc
       ELSE IF u.n = 0 THEN Finish(t, RetNone) /\ UNCHANGED loc
       ELSE Goto(t, "pg_upd_select") /\ SetLoc(t, [NoLoc EXCEPT !.key = u.n])
    /\ UNCHANGED <<connVars, nextId>>

\* Faulty variant of PgPatched, used to test C3: every field of the patch is
\* assigned, None or not.
PgPatchedUnguarded(row, d) == Row(d.name, d.email, d.favoriteNumber)

\* the fields of the loaded entity the patch assigns
PgPatched(row, d) ==
    Row(IF d.name # None THEN d.name ELSE row.name,
        IF d.email # None THEN d.email ELSE row.email,
        IF d.favoriteNumber # None THEN d.favoriteNumber ELSE row.fav)

PgUpdSelect(t) ==
    /\ pc[t] = "pg_upd_select"
    /\ IF ~Exists(loc[t].key)
       THEN Finish(t, RetNone) /\ UNCHANGED loc
       ELSE /\ SetLoc(t, [loc[t] EXCEPT !.row = Some(store[loc[t].key])])
            /\ Goto(t, "pg_upd_commit")
    /\ UNCHANGED <<storeVars, connVars, nextId>>

\* session.commit(): the unit of work flushes an UPDATE of the attributes whose
\* value changed, WHERE id = key; it waits for a lock on the row, and a flush
\* that matches no row is a StaleDataError.  No changed attribute, no UPDATE.
PgUpdCommit(t) ==
    LET k == loc[t].key
        loaded == Get(loc[t].row)
        new == PgPatched(loaded, data[t])
    IN
    /\ pc[t] = "pg_upd_commit"
    /\ k \notin DOMAIN pgLock
    /\ IF new = loaded
       THEN UNCHANGED store /\ Finish(t, RetMade(PgToUser(k, new)))
       ELSE IF ~Exists(k)
       THEN UNCHANGED store /\ Finish(t, RetRaise("StaleDataError"))
       ELSE /\ store' = Put(store, k,
                  Row(IF new.name # loaded.name THEN new.name ELSE store[k].name,
                      IF new.email # loaded.email THEN new.email ELSE store[k].email,
                      IF new.fav # loaded.fav THEN new.fav ELSE store[k].fav))
            /\ Finish(t, RetMade(PgToUser(k, new)))
    /\ UNCHANGED <<pgLock, loc, connVars, nextId>>

PostgresDelete(t, id) ==
    LET u == PgParseUuid(id) IN
    /\ IF u.exc # "" THEN Finish(t, RetRaise(u.exc)) /\ UNCHANGED loc
       ELSE IF u.n = 0 THEN Finish(t, RetBool(FALSE)) /\ UNCHANGED loc
       ELSE Goto(t, "pg_del_execute") /\ SetLoc(t, [NoLoc EXCEPT !.key = u.n])
    /\ UNCHANGED <<connVars, nextId>>

\* session.execute(delete(...)): the DELETE waits for the row's lock, then
\* locks the row it matches until the transaction ends; loc.n is its rowcount.
PgDelExecute(t) ==
    LET k == loc[t].key IN
    /\ pc[t] = "pg_del_execute"
    /\ k \notin DOMAIN pgLock
    /\ IF Exists(k)
       THEN /\ pgLock' = Put(pgLock, k, t)
            /\ SetLoc(t, [loc[t] EXCEPT !.n = 1])
       ELSE /\ UNCHANGED pgLock
            /\ SetLoc(t, [loc[t] EXCEPT !.n = 0])
    /\ Goto(t, "pg_del_commit")
    /\ UNCHANGED <<store, connVars, nextId>>

PgLocksOf(t) == {k \in DOMAIN pgLock : pgLock[k] = t}

PgDelCommit(t) ==
    /\ pc[t] = "pg_del_commit"
    /\ store' = Remove(store, PgLocksOf(t))
    /\ pgLock' = Remove(pgLock, PgLocksOf(t))
    /\ Finish(t, RetBool(loc[t].n = 1))
    /\ UNCHANGED <<loc, connVars, nextId>>

PostgresDeleteAll(t) ==
    /\ Goto(t, "pg_da_execute")
    /\ SetLoc(t, NoLoc)
    /\ UNCHANGED <<connVars, nextId>>

\* DELETE FROM users: locks every row it sees; waits while one is locked.
PgDaExecute(t) ==
    /\ pc[t] = "pg_da_execute"
    /\ DOMAIN pgLock = {}
    /\ pgLock' = [k \in DOMAIN store |-> t]
    /\ Goto(t, "pg_da_commit")
    /\ UNCHANGED <<store, loc, connVars, nextId>>

PgDaCommit(t) ==
    /\ pc[t] = "pg_da_commit"
    /\ store' = Remove(store, PgLocksOf(t))
    /\ pgLock' = Remove(pgLock, PgLocksOf(t))
    /\ Finish(t, RetVoid)
    /\ UNCHANGED <<loc, connVars, nextId>>

PostgresStep(t) ==
    \/ PgCreateCommit(t)
    \/ PgFindSelect(t)
    \/ PgUpdSelect(t)
    \/ PgUpdCommit(t)
    \/ PgDelExecute(t)
    \/ PgDelCommit(t)
    \/ PgDaExecute(t)
    \/ PgDaCommit(t)

\* ------------------------------------------------------- mongodb adapter
\* _connect (mongodb, redis): the client is created when there is none.
Connect ==
    /\ conn' = TRUE
    /\ connects' = IF conn THEN connects ELSE connects + 1

\* bson.ObjectId(id): 24 hex digits in either case, else InvalidId.
ObjectId(id) ==
    IF id.form \in {"canon", "upper"}
    THEN [exc |-> "", n |-> id.n]
    ELSE [exc |-> "InvalidId", n |-> 0]

\* _parse_object_id: None (0) on any Exception.
MgParseObjectId(id) ==
    LET o == ObjectId(id) IN
    IF o.exc # "" THEN [exc |-> "", n |-> 0] ELSE o

\* _to_user: doc["name"], doc["email"] (KeyError when the field is absent),
\* doc.get("favoriteNumber").
MgToUser(k, doc) ==
    IF IsNone(doc.name) \/ IsNone(doc.email)
    THEN [exc |-> "KeyError", user |-> None]
    ELSE MakeUser(FormatId(k), doc.name, doc.email, doc.fav)

MongoCreate(t, d) ==
    /\ Connect
    /\ nextId <= MaxIds
    /\ nextId' = nextId + 1
    /\ SetLoc(t, [NoLoc EXCEPT !.key = nextId,
                  !.row = Some(Row(Some(d.name), Some(d.email),
                                   IF d.favoriteNumber # None
                                   THEN d.favoriteNumber ELSE None))])
    /\ Goto(t, "mg_insert_one")

\* Faulty variant of MgInsertOne, used to test C29: the collection is
\* replaced by the new document.
MgInsertOneOnly(t) ==
    /\ pc[t] = "mg_insert_one"
    /\ store' = Put(EmptyStore, loc[t].key, Get(loc[t].row))
    /\ Finish(t, RetMade(build_user(FormatId(loc[t].key), data[t])))
    /\ UNCHANGED <<pgLock, loc, connVars, nextId>>

MgInsertOne(t) ==
    /\ pc[t] = "mg_insert_one"
    /\ store' = Put(store, loc[t].key, Get(loc[t].row))
    /\ Finish(t, RetMade(build_user(FormatId(loc[t].key), data[t])))
    /\ UNCHANGED <<pgLock, loc, connVars, nextId>>

MongoFindById(t, id) ==
    LET o == MgParseObjectId(id) IN
    /\ Connect
    /\ IF o.exc # "" THEN Finish(t, RetRaise(o.exc)) /\ UNCHANGED loc
       ELSE IF o.n = 0 THEN Finish(t, RetNone) /\ UNCHANGED loc
       ELSE Goto(t, "mg_find_one") /\ SetLoc(t, [NoLoc EXCEPT !.key = o.n])
    /\ UNCHANGED nextId

MgFindOne(t) ==
    /\ pc[t] = "mg_find_one"
    /\ IF Exists(loc[t].key)
       THEN Finish(t, RetMade(MgToUser(loc[t].key, store[loc[t].key])))
       ELSE Finish(t, RetNone)
    /\ UNCHANGED <<storeVars, loc, connVars, nextId>>

\* update_fields: the patch's fields that are not None
MgUpdateFields(d) ==
    Row(IF d.name # None THEN d.name ELSE None,
        IF d.email # None THEN d.email ELSE None,
        IF d.favoriteNumber # None THEN d.favoriteNumber ELSE None)

\* Faulty variant of MongoUpdate, used to test C4: a patch with no field set
\* returns None without reading the document.
MongoUpdateEmptyIsNone(t, id, d) ==
    LET o == MgParseObjectId(id)
        update_fields == MgUpdateFields(d)
    IN
    /\ Connect
    /\ IF o.exc # "" THEN Finish(t, RetRaise(o.exc)) /\ UNCHANGED loc
       ELSE IF o.n = 0 THEN Finish(t, RetNone) /\ UNCHANGED loc
       ELSE IF update_fields = Row(None, None, None)
       THEN Finish(t, RetNone) /\ UNCHANGED loc
       ELSE /\ Goto(t, "mg_find_one_and_update")
            /\ SetLoc(t, [NoLoc EXCEPT !.key = o.n, !.row = Some(update_fields)])
    /\ UNCHANGED nextId

MongoUpdate(t, id, d) ==
    LET o == MgParseObjectId(id)
        update_fields == MgUpdateFields(d)
    IN
    /\ Connect
    /\ IF o.exc # "" THEN Finish(t, RetRaise(o.exc)) /\ UNCHANGED loc
       ELSE IF o.n = 0 THEN Finish(t, RetNone) /\ UNCHANGED loc
       ELSE IF update_fields = Row(None, None, None)
       THEN Goto(t, "mg_find_one") /\ SetLoc(t, [NoLoc EXCEPT !.key = o.n])
       ELSE /\ Goto(t, "mg_find_one_and_update")
            /\ SetLoc(t, [NoLoc EXCEPT !.key = o.n, !.row = Some(update_fields)])
    /\ UNCHANGED nextId

\* {"$set": fields} applied to a document
SetFields(doc, f) ==
    Row(IF f.name # None THEN f.name ELSE doc.name,
        IF f.email # None THEN f.email ELSE doc.email,
        IF f.fav # None THEN f.fav ELSE doc.fav)

\* Faulty variant of MgFindOneAndUpdate, used to test C16: upsert=True, the
\* document is made when there is none.
MgFindOneAndUpdateUpsert(t) ==
    LET k == loc[t].key
        doc == IF Exists(k) THEN store[k] ELSE Row(None, None, None)
    IN
    /\ pc[t] = "mg_find_one_and_update"
    /\ store' = Put(store, k, SetFields(doc, Get(loc[t].row)))
    /\ Finish(t, RetMade(MgToUser(k, SetFields(doc, Get(loc[t].row)))))
    /\ UNCHANGED <<pgLock, loc, connVars, nextId>>

\* find_one_and_update(..., return_document=True): one atomic store call.
MgFindOneAndUpdate(t) ==
    LET k == loc[t].key IN
    /\ pc[t] = "mg_find_one_and_update"
    /\ IF ~Exists(k)
       THEN UNCHANGED store /\ Finish(t, RetNone)
       ELSE /\ store' = Put(store, k, SetFields(store[k], Get(loc[t].row)))
            /\ Finish(t, RetMade(MgToUser(k, SetFields(store[k], Get(loc[t].row)))))
    /\ UNCHANGED <<pgLock, loc, connVars, nextId>>

MongoDelete(t, id) ==
    LET o == MgParseObjectId(id) IN
    /\ Connect
    /\ IF o.exc # "" THEN Finish(t, RetRaise(o.exc)) /\ UNCHANGED loc
       ELSE IF o.n = 0 THEN Finish(t, RetBool(FALSE)) /\ UNCHANGED loc
       ELSE Goto(t, "mg_delete_one") /\ SetLoc(t, [NoLoc EXCEPT !.key = o.n])
    /\ UNCHANGED nextId

MgDeleteOne(t) ==
    LET deleted_count == IF Exists(loc[t].key) THEN 1 ELSE 0 IN
    /\ pc[t] = "mg_delete_one"
    /\ store' = Remove(store, {loc[t].key})
    /\ Finish(t, RetBool(deleted_count > 0))
    /\ UNCHANGED <<pgLock, loc, connVars, nextId>>

MongoDeleteAll(t) ==
    /\ Connect
    /\ Goto(t, "mg_delete_many")
    /\ SetLoc(t, NoLoc)
    /\ UNCHANGED nextId

MgDeleteMany(t) ==
    /\ pc[t] = "mg_delete_many"
    /\ store' = Remove(store, DOMAIN store)
    /\ Finish(t, RetVoid)
    /\ UNCHANGED <<pgLock, loc, connVars, nextId>>

MongoStep(t) ==
    \/ MgInsertOne(t)
    \/ MgFindOne(t)
    \/ MgFindOneAndUpdate(t)
    \/ MgDeleteOne(t)
    \/ MgDeleteMany(t)

\* --------------------------------------------------------- redis adapter
\* Strings are sequences of one-character strings where their characters
\* matter (the decimal form of favoriteNumber).
Digit(d) == <<"0", "1", "2", "3", "4", "5", "6", "7", "8", "9">>[d + 1]

DigitChars == {Digit(d) : d \in 0..9}

DigitValue(c) == CHOOSE d \in 0..9 : Digit(d) = c

RECURSIVE StrOfNat(_)
StrOfNat(n) == IF n < 10 THEN <<Digit(n)>>
               ELSE Append(StrOfNat(n \div 10), Digit(n % 10))

\* str(n) of an int
StrOfInt(n) == IF n < 0 THEN <<"-">> \o StrOfNat(0 - n) ELSE StrOfNat(n)

RECURSIVE NatOfDigits(_)
NatOfDigits(s) == IF s = <<>> THEN 0
                  ELSE 10 * NatOfDigits(SubSeq(s, 1, Len(s) - 1)) + DigitValue(s[Len(s)])

AllDigits(s) == s # <<>> /\ \A i \in 1..Len(s) : s[i] \in DigitChars

\* int(s): an optional sign and decimal digits, else ValueError
IntOfStr(s) ==
    IF AllDigits(s) THEN [exc |-> "", n |-> NatOfDigits(s)]
    ELSE IF s # <<>> /\ s[1] \in {"-", "+"} /\ AllDigits(Tail(s))
    THEN [exc |-> "", n |-> IF s[1] = "-" THEN 0 - NatOfDigits(Tail(s))
                                        ELSE NatOfDigits(Tail(s))]
    ELSE [exc |-> "ValueError", n |-> 0]

\* What the client sends for a str and hands back: bytes, here the UTF-8
\* encoding of the text v.
Encode(s) == [t |-> "bytes", v |-> s, utf8 |-> TRUE]

\* A field value that is no UTF-8 encoding of any text (b"\xff").
NotUtf8 == [t |-> "bytes", v |-> <<>>, utf8 |-> FALSE]

\* x.decode() if isinstance(x, bytes) else x: decode() raises
\* UnicodeDecodeError for bytes that are not valid UTF-8.
DecodeIfBytes(x) ==
    IF x.t = "bytes" /\ ~x.utf8 THEN [exc |-> "UnicodeDecodeError", v |-> <<>>]
    ELSE [exc |-> "", v |-> x.v]

\* _key: f"{self._prefix}{id}"
RdKey(id) == <<"user:", id>>

\* Faulty variant of RdFields, used to test C1: favoriteNumber is tested for
\* truth, so 0 is left out like None.
RdFieldsTruthy(name, email, fav) ==
    Row(IF name # None THEN Some(Encode(Get(name))) ELSE None,
        IF email # None THEN Some(Encode(Get(email))) ELSE None,
        IF fav # None /\ Get(fav) # 0 THEN Some(Encode(StrOfInt(Get(fav)))) ELSE None)

\* create's and update's mapping for hset, from the fields that are not None
RdFields(name, email, fav) ==
    Row(IF name # None THEN Some(Encode(Get(name))) ELSE None,
        IF email # None THEN Some(Encode(Get(email))) ELSE None,
        IF fav # None THEN Some(Encode(StrOfInt(Get(fav)))) ELSE None)

\* HSET key mapping: creates the hash when there is none
HSet(st, k, f) ==
    Put(st, k, SetFields(IF k \in DOMAIN st THEN st[k] ELSE Row(None, None, None), f))

RedisCreate(t, d) ==
    /\ Connect
    /\ nextId <= MaxIds
    /\ nextId' = nextId + 1
    /\ SetLoc(t, [NoLoc EXCEPT !.key = RdKey(FormatId(nextId)),
                  !.row = Some(RdFields(Some(d.name), Some(d.email), d.favoriteNumber))])
    /\ Goto(t, "rd_create_hset")

RdCreateHset(t) ==
    /\ pc[t] = "rd_create_hset"
    /\ store' = HSet(store, loc[t].key, Get(loc[t].row))
    /\ Finish(t, RetMade(build_user(loc[t].key[2], data[t])))
    /\ UNCHANGED <<pgLock, loc, connVars, nextId>>

RedisFindById(t, id) ==
    /\ Connect
    /\ SetLoc(t, [NoLoc EXCEPT !.key = RdKey(id)])
    /\ Goto(t, "rd_find_exists")
    /\ UNCHANGED nextId

RdFindExists(t) ==
    /\ pc[t] = "rd_find_exists"
    /\ IF ~Exists(loc[t].key) THEN Finish(t, RetNone)
       ELSE Goto(t, "rd_find_hmget")
    /\ UNCHANGED <<storeVars, loc, connVars, nextId>>

\* hmget(key, ["name", "email", "favoriteNumber"]) and the decoding of its result
RdDecodeUser(id, result) ==
    IF IsNone(result.name) \/ IsNone(result.email) THEN RetNone
    ELSE LET name == DecodeIfBytes(Get(result.name))
             email == DecodeIfBytes(Get(result.email))
             fav_str == IF result.fav # None THEN DecodeIfBytes(Get(result.fav))
                        ELSE [exc |-> "", v |-> <<>>]
             fav == IF result.fav # None /\ fav_str.exc = ""
                    THEN IntOfStr(fav_str.v)
                    ELSE [exc |-> "", n |-> 0]
         IN IF name.exc # "" THEN RetRaise(name.exc)
            ELSE IF email.exc # "" THEN RetRaise(email.exc)
            ELSE IF fav_str.exc # "" THEN RetRaise(fav_str.exc)
            ELSE IF fav.exc = "ValueError" THEN RetNone
            ELSE RetMade(MakeUser(id, Some(name.v), Some(email.v),
                                  IF result.fav # None THEN Some(fav.n) ELSE None))

RdFindHmget(t) ==
    LET k == loc[t].key
        result == IF Exists(k) THEN store[k] ELSE Row(None, None, None)
    IN
    /\ pc[t] = "rd_find_hmget"
    /\ Finish(t, RdDecodeUser(k[2], result))
    /\ UNCHANGED <<storeVars, loc, connVars, nextId>>

RedisUpdate(t, id, d) ==
    /\ Connect
    /\ SetLoc(t, [NoLoc EXCEPT !.key = RdKey(id)])
    /\ Goto(t, "rd_upd_exists")
    /\ UNCHANGED nextId

RdUpdExists(t) ==
    LET fields == RdFields(data[t].name, data[t].email, data[t].favoriteNumber) IN
    /\ pc[t] = "rd_upd_exists"
    /\ IF ~Exists(loc[t].key) THEN Finish(t, RetNone) /\ UNCHANGED loc
       ELSE IF fields # Row(None, None, None)
       THEN Goto(t, "rd_upd_hset") /\ SetLoc(t, [loc[t] EXCEPT !.row = Some(fields)])
       ELSE Goto(t, "rd_find_exists") /\ UNCHANGED loc
    /\ UNCHANGED <<storeVars, connVars, nextId>>

RdUpdHset(t) ==
    /\ pc[t] = "rd_upd_hset"
    /\ store' = HSet(store, loc[t].key, Get(loc[t].row))
    /\ Goto(t, "rd_find_exists")
    /\ UNCHANGED <<pgLock, loc, connVars, nextId>>

RedisDelete(t, id) ==
    /\ Connect
    /\ SetLoc(t, [NoLoc EXCEPT !.key = RdKey(id)])
    /\ Goto(t, "rd_delete")
    /\ UNCHANGED nextId

\* Faulty variant of RdDelete, used to test C2: deleted >= 0 in place of > 0.
RdDeleteAlwaysTrue(t) ==
    LET deleted == IF Exists(loc[t].key) THEN 1 ELSE 0 IN
    /\ pc[t] = "rd_delete"
    /\ store' = Remove(store, {loc[t].key})
    /\ Finish(t, RetBool(deleted >= 0))
    /\ UNCHANGED <<pgLock, loc, connVars, nextId>>

RdDelete(t) ==
    LET deleted == IF Exists(loc[t].key) THEN 1 ELSE 0 IN
    /\ pc[t] = "rd_delete"
    /\ store' = Remove(store, {loc[t].key})
    /\ Finish(t, RetBool(deleted > 0))
    /\ UNCHANGED <<pgLock, loc, connVars, nextId>>

RedisDeleteAll(t) ==
    /\ Connect
    /\ SetLoc(t, NoLoc)
    /\ Goto(t, "rd_da_keys")
    /\ UNCHANGED nextId

\* Faulty variant of RdDaKeys, used to test C6: keys("users:*"), a pattern no
\* key of the adapter matches.
RdDaKeysOtherPrefix(t) ==
    LET keys == {k \in DOMAIN store : k[1] = "users:"} IN
    /\ pc[t] = "rd_da_keys"
    /\ IF keys # {}
       THEN Goto(t, "rd_da_delete") /\ SetLoc(t, [loc[t] EXCEPT !.keys = keys])
       ELSE Finish(t, RetVoid) /\ UNCHANGED loc
    /\ UNCHANGED <<storeVars, connVars, nextId>>

\* keys("user:*")
RdDaKeys(t) ==
    LET keys == {k \in DOMAIN store : k[1] = "user:"} IN
    /\ pc[t] = "rd_da_keys"
    /\ IF keys # {}
       THEN Goto(t, "rd_da_delete") /\ SetLoc(t, [loc[t] EXCEPT !.keys = keys])
       ELSE Finish(t, RetVoid) /\ UNCHANGED loc
    /\ UNCHANGED <<storeVars, connVars, nextId>>

\* Faulty variant of RdDaDelete, used to test C24: the delete step removes
\* every key under the prefix at the time it runs.
RdDaDeleteNow(t) ==
    /\ pc[t] = "rd_da_delete"
    /\ store' = Remove(store, {k \in DOMAIN store : k[1] = "user:"})
    /\ Finish(t, RetVoid)
    /\ UNCHANGED <<pgLock, loc, connVars, nextId>>

\* delete(*keys)
RdDaDelete(t) ==
    /\ pc[t] = "rd_da_delete"
    /\ store' = Remove(store, loc[t].keys)
    /\ Finish(t, RetVoid)
    /\ UNCHANGED <<pgLock, loc, connVars, nextId>>

RedisStep(t) ==
    \/ RdCreateHset(t)
    \/ RdFindExists(t)
    \/ RdFindHmget(t)
    \/ RdUpdExists(t)
    \/ RdUpdHset(t)
    \/ RdDelete(t)
    \/ RdDaKeys(t)
    \/ RdDaDelete(t)

\* ----------------------------------------------------- cassandra adapter
\* _parse_uuid: None (0) on ValueError.
CsParseUuid(id) ==
    LET u == UUID(id) IN
    IF u.exc = "ValueError" THEN [exc |-> "", n |-> 0] ELSE u

\* _execute(query, params): first the _connect job, then the query's job
CsExecute(t, stmt, l) ==
    /\ SetLoc(t, [l EXCEPT !.stmt = stmt])
    /\ Goto(t, "cs_connect")

\* _connect_sync in a pool thread: nothing to do when there is a session
CsConnect(t) ==
    /\ pc[t] = "cs_connect"
    /\ IF conn THEN Goto(t, "cs_exec") ELSE Goto(t, "cs_connecting")
    /\ UNCHANGED <<storeVars, loc, connVars, nextId>>

\* ... else Cluster(...) and cluster.connect(keyspace)
CsConnecting(t) ==
    /\ pc[t] = "cs_connecting"
    /\ conn' = TRUE
    /\ connects' = connects + 1
    /\ Goto(t, "cs_exec")
    /\ UNCHANGED <<storeVars, loc, nextId>>

AtExec(t, stmt) == pc[t] = "cs_exec" /\ loc[t].stmt = stmt

CassandraCreate(t, d) ==
    /\ nextId <= MaxIds
    /\ nextId' = nextId + 1
    /\ CsExecute(t, "insert",
                 [NoLoc EXCEPT !.key = nextId,
                  !.row = Some(IF d.favoriteNumber # None
                               THEN Row(Some(d.name), Some(d.email), d.favoriteNumber)
                               ELSE Row(Some(d.name), Some(d.email), None))])
    /\ UNCHANGED connVars

\* INSERT INTO users: writes the columns it names (an upsert)
CsInsert(t) ==
    /\ AtExec(t, "insert")
    /\ store' = HSet(store, loc[t].key, Get(loc[t].row))
    /\ Finish(t, RetMade(MakeUser(FormatId(loc[t].key), Some(data[t].name),
                                  Some(data[t].email), data[t].favoriteNumber)))
    /\ UNCHANGED <<pgLock, loc, connVars, nextId>>

\* find_by_id up to its query; r is what an unparsable id returns
CsFindById(t, id, stmt, r) ==
    LET u == CsParseUuid(id) IN
    IF u.exc # "" THEN Finish(t, RetRaise(u.exc)) /\ UNCHANGED loc
    ELSE IF u.n = 0 THEN Finish(t, r) /\ UNCHANGED loc
    ELSE CsExecute(t, stmt, [NoLoc EXCEPT !.key = u.n])

\* the User find_by_id builds from the selected row
CsRowUser(k) == MakeUser(FormatId(k), store[k].name, store[k].email, store[k].fav)

CassandraFindById(t, id) ==
    /\ CsFindById(t, id, "find_select", RetNone)
    /\ UNCHANGED <<connVars, nextId>>

CsFindSelect(t) ==
    /\ AtExec(t, "find_select")
    /\ IF Exists(loc[t].key) THEN Finish(t, RetMade(CsRowUser(loc[t].key)))
       ELSE Finish(t, RetNone)
    /\ UNCHANGED <<storeVars, loc, connVars, nextId>>

CassandraUpdate(t, id, d) ==
    /\ CsFindById(t, id, "upd_select", RetNone)
    /\ UNCHANGED <<connVars, nextId>>

\* the SET clauses: the patch's fields that are not None
CsSetClauses(d) ==
    Row(IF d.name # None THEN d.name ELSE None,
        IF d.email # None THEN d.email ELSE None,
        IF d.favoriteNumber # None THEN d.favoriteNumber ELSE None)

\* Faulty variant of CsAssigned, used to test C25: update returns the row as
\* its find_by_id read it.
CsAssignedStale(existing, d) == existing

\* existing, with the patch's fields assigned
CsAssigned(existing, d) ==
    [id |-> existing.id,
     name |-> IF d.name # None THEN Get(d.name) ELSE existing.name,
     email |-> IF d.email # None THEN Get(d.email) ELSE existing.email,
     favoriteNumber |-> IF d.favoriteNumber # None THEN d.favoriteNumber
                        ELSE existing.favoriteNumber]

\* update, from the result of its find_by_id on
CsUpdSelect(t) ==
    LET k == loc[t].key
        set_clauses == CsSetClauses(data[t])
    IN
    /\ AtExec(t, "upd_select")
    /\ IF ~Exists(k) THEN Finish(t, RetNone) /\ UNCHANGED loc
       ELSE IF CsRowUser(k).exc # ""
       THEN Finish(t, RetRaise(CsRowUser(k).exc)) /\ UNCHANGED loc
       ELSE LET existing == CsAssigned(Get(CsRowUser(k).user), data[t]) IN
            IF set_clauses = Row(None, None, None)
            THEN Finish(t, RetUser(existing)) /\ UNCHANGED loc
            ELSE CsExecute(t, "update",
                           [loc[t] EXCEPT !.row = Some(set_clauses),
                                          !.user = Some(existing)])
    /\ UNCHANGED <<storeVars, connVars, nextId>>

\* UPDATE users SET ... WHERE id: writes the columns it names (an upsert)
CsUpdate(t) ==
    /\ AtExec(t, "update")
    /\ store' = HSet(store, loc[t].key, Get(loc[t].row))
    /\ Finish(t, RetUser(Get(loc[t].user)))
    /\ UNCHANGED <<pgLock, loc, connVars, nextId>>

CassandraDelete(t, id) ==
    /\ CsFindById(t, id, "del_select", RetBool(FALSE))
    /\ UNCHANGED <<connVars, nextId>>

CsDelSelect(t) ==
    LET k == loc[t].key IN
    /\ AtExec(t, "del_select")
    /\ IF ~Exists(k) THEN Finish(t, RetBool(FALSE)) /\ UNCHANGED loc
       ELSE IF CsRowUser(k).exc # ""
       THEN Finish(t, RetRaise(CsRowUser(k).exc)) /\ UNCHANGED loc
       ELSE CsExecute(t, "delete", loc[t])
    /\ UNCHANGED <<storeVars, connVars, nextId>>

CsDelete(t) ==
    /\ AtExec(t, "delete")
    /\ store' = Remove(store, {loc[t].key})
    /\ Finish(t, RetBool(TRUE))
    /\ UNCHANGED <<pgLock, loc, connVars, nextId>>

CassandraDeleteAll(t) ==
    /\ CsExecute(t, "truncate", NoLoc)
    /\ UNCHANGED <<connVars, nextId>>

CsTruncate(t) ==
    /\ AtExec(t, "truncate")
    /\ store' = Remove(store, DOMAIN store)
    /\ Finish(t, RetVoid)
    /\ UNCHANGED <<pgLock, loc, connVars, nextId>>

CassandraStep(t) ==
    \/ CsConnect(t)
    \/ CsConnecting(t)
    \/ CsInsert(t)
    \/ CsFindSelect(t)
    \/ CsUpdSelect(t)
    \/ CsUpdate(t)
    \/ CsDelSelect(t)
    \/ CsDelete(t)
    \/ CsTruncate(t)

\* ------------------------------------------------- the repository contract
\* A call starts: its arguments are bound and the history notes it.
Begin(t, o, id, d) ==
    /\ pc[t] = "idle"
    /\ op' = [op EXCEPT ![t] = o]
    /\ arg' = [arg EXCEPT ![t] = id]
    /\ data' = [data EXCEPT ![t] = d]
    /\ store0' = [store0 EXCEPT ![t] = store]
    /\ fresh' = Remove(fresh, CASE o \in {"update", "delete"} -> {id.n}
                                 [] o = "delete_all" -> DOMAIN fresh
                                 [] OTHER -> {})
    /\ patched' = Remove(patched, CASE o \in {"update", "delete"} -> {id.n}
                                     [] o = "delete_all" -> DOMAIN patched
                                     [] OTHER -> {})
    /\ UNCHANGED <<backend, storeVars, created, removed, wiped, regVars>>

Create(t, d) ==
    /\ Begin(t, "create", NoId, d)
    /\ \/ backend = "postgres" /\ PostgresCreate(t, d)
       \/ backend = "mongodb" /\ MongoCreate(t, d)
       \/ backend = "redis" /\ RedisCreate(t, d)
       \/ backend = "cassandra" /\ CassandraCreate(t, d)

FindById(t, id) ==
    /\ Begin(t, "find_by_id", id, NoData)
    /\ \/ backend = "postgres" /\ PostgresFindById(t, id)
       \/ backend = "mongodb" /\ MongoFindById(t, id)
       \/ backend = "redis" /\ RedisFindById(t, id)
       \/ backend = "cassandra" /\ CassandraFindById(t, id)

Update(t, id, d) ==
    /\ Begin(t, "update", id, d)
    /\ \/ backend = "postgres" /\ PostgresUpdate(t, id, d)
       \/ backend = "mongodb" /\ MongoUpdate(t, id, d)
       \/ backend = "redis" /\ RedisUpdate(t, id, d)
       \/ backend = "cassandra" /\ CassandraUpdate(t, id, d)

Delete(t, id) ==
    /\ Begin(t, "delete", id, NoData)
    /\ \/ backend = "postgres" /\ PostgresDelete(t, id)
       \/ backend = "mongodb" /\ MongoDelete(t, id)
       \/ backend = "redis" /\ RedisDelete(t, id)
       \/ backend = "cassandra" /\ CassandraDelete(t, id)

DeleteAll(t) ==
    /\ Begin(t, "delete_all", NoId, NoData)
    /\ \/ backend = "postgres" /\ PostgresDeleteAll(t)
       \/ backend = "mongodb" /\ MongoDeleteAll(t)
       \/ backend = "redis" /\ RedisDeleteAll(t)
       \/ backend = "cassandra" /\ CassandraDeleteAll(t)

\* One awaited store call of the task's operation.
Step(t) ==
    /\ \/ backend = "postgres" /\ PostgresStep(t)
       \/ backend = "mongodb" /\ MongoStep(t)
       \/ backend = "redis" /\ RedisStep(t)
       \/ backend = "cassandra" /\ CassandraStep(t)
    /\ UNCHANGED <<backend, op, arg, data, histVars, calls, regVars>>

\* Faulty variant of Fault, used to test C17: the operation catches the
\* store's exception and reports absence.
FaultSwallowed(t) ==
    /\ pc[t] \notin {"idle", "done"}
    /\ Finish(t, RetNone)
    /\ pgLock' = Remove(pgLock, PgLocksOf(t))
    /\ UNCHANGED <<backend, store, connVars, nextId, op, arg, data, loc, histVars,
                   calls, regVars>>

\* The store call the task is waiting for fails (connection refused, timeout
\* before the request was applied): the exception leaves the operation, which
\* has no handler for it; an open transaction is rolled back.
Fault(t) ==
    /\ pc[t] \notin {"idle", "done"}
    /\ Finish(t, RetRaise("StorageFault"))
    /\ pgLock' = Remove(pgLock, PgLocksOf(t))
    /\ UNCHANGED <<backend, store, connVars, nextId, op, arg, data, loc, histVars,
                   calls, regVars>>

\* The caller takes the result; the history notes what the call reported.
Return(t) ==
    /\ pc[t] = "done"
    /\ IF op[t] = "create" /\ ret[t].kind = "user"
       THEN /\ created' = created \cup {Get(ret[t].user).id.n}
            /\ fresh' = Put(fresh, Get(ret[t].user).id.n, Get(ret[t].user))
       ELSE UNCHANGED <<created, fresh>>
    /\ removed' = IF op[t] = "delete" /\ ret[t].kind = "bool" /\ ret[t].ok
                  THEN removed \cup {arg[t].n} ELSE removed
    /\ wiped' = IF op[t] = "delete_all" /\ ret[t].kind = "void"
                THEN wiped \cup created ELSE wiped
    /\ patched' = IF op[t] = "update" /\ ret[t].kind = "user"
                       /\ arg[t].form = "canon"
                  THEN Put(patched, arg[t].n, Get(ret[t].user)) ELSE patched
    /\ pc' = [pc EXCEPT ![t] = "idle"]
    /\ op' = [op EXCEPT ![t] = ""]
    /\ arg' = [arg EXCEPT ![t] = NoId]
    /\ data' = [data EXCEPT ![t] = NoData]
    /\ loc' = [loc EXCEPT ![t] = NoLoc]
    /\ ret' = [ret EXCEPT ![t] = Pending]
    /\ store0' = [store0 EXCEPT ![t] = EmptyStore]
    /\ UNCHANGED <<backend, storeVars, connVars, nextId, calls, regVars>>

\* ------------------------------------------------------------ registry
\* Tags a caller may pass: the four of DATABASE_TYPES and one that is not.
Tags == Backends \cup {"not-a-backend"}

\* An adapter object: the n-th one constructed for its tag.
Inst(tag, n) == <<tag, n>>

NoGot == [tag |-> "", inst |-> None, exc |-> "", stale |-> FALSE]

\* An adapter after __init__: no client, session or pooled connection yet
\* (client), and disconnect() not yet called on it (closed).
NewAdapter == [client |-> FALSE, closed |-> FALSE]

\* database in _repositories / _repositories[database]
InRegistry(repos, tag) == \E i \in 1..Len(repos) : repos[i].tag = tag

Lookup(repos, tag) == repos[CHOOSE i \in 1..Len(repos) : repos[i].tag = tag].inst

\* The registry and its adapters, as get_repository reads and writes them.
RegState == [repos |-> repositories, adapters |-> adapters, built |-> built,
             sinceClear |-> sinceClear]

\* Faulty variant of get_repository, used to test C7: the new adapter is
\* returned but not inserted into _repositories.
get_repository_noinsert(r, tag) ==
    IF InRegistry(r.repos, tag)
    THEN [r |-> r, inst |-> Lookup(r.repos, tag), exc |-> ""]
    ELSE IF tag \notin Backends
    THEN [r |-> r, inst |-> None, exc |-> "ValueError"]
    ELSE LET repo == Inst(tag, r.built[tag] + 1) IN
         [r |-> [repos |-> r.repos,
                 adapters |-> Put(r.adapters, repo, NewAdapter),
                 built |-> [r.built EXCEPT ![tag] = @ + 1],
                 sinceClear |-> [r.sinceClear EXCEPT ![tag] = @ + 1]],
          inst |-> repo, exc |-> ""]

\* Faulty variant of get_repository, used to test C8: no look at _repositories
\* before constructing.
get_repository_nomemo(r, tag) ==
    IF tag \notin Backends
    THEN [r |-> r, inst |-> None, exc |-> "ValueError"]
    ELSE LET repo == Inst(tag, r.built[tag] + 1) IN
         [r |-> [repos |-> Append(r.repos, [tag |-> tag, inst |-> repo]),
                 adapters |-> Put(r.adapters, repo, NewAdapter),
                 built |-> [r.built EXCEPT ![tag] = @ + 1],
                 sinceClear |-> [r.sinceClear EXCEPT ![tag] = @ + 1]],
          inst |-> repo, exc |-> ""]

\* Faulty variant of get_repository, used to test C27: constructing the
\* adapter of one tag also constructs and inserts that of another tag.
get_repository_eager(r, tag) ==
    IF InRegistry(r.repos, tag)
    THEN [r |-> r, inst |-> Lookup(r.repos, tag), exc |-> ""]
    ELSE IF tag \notin Backends
    THEN [r |-> r, inst |-> None, exc |-> "ValueError"]
    ELSE LET repo == Inst(tag, r.built[tag] + 1)
             other == CHOOSE o \in Backends : o # tag
             more == IF InRegistry(r.repos, other) THEN {} ELSE {other}
             repo2 == Inst(other, r.built[other] + 1)
         IN
         [r |-> [repos |-> Append(r.repos, [tag |-> tag, inst |-> repo])
                           \o (IF more = {} THEN <<>>
                               ELSE <<[tag |-> other, inst |-> repo2]>>),
                 adapters |-> [i \in DOMAIN r.adapters \cup {repo}
                                     \cup {Inst(o, r.built[o] + 1) : o \in more} |->
                                 IF i \in DOMAIN r.adapters THEN r.adapters[i]
                                 ELSE NewAdapter],
                 built |-> [o \in Backends |->
                              r.built[o] + (IF o = tag \/ o \in more THEN 1 ELSE 0)],
                 sinceClear |-> [o \in Backends |->
                              r.sinceClear[o]
                                  + (IF o = tag \/ o \in more THEN 1 ELSE 0)]],
          inst |-> repo, exc |-> ""]

\* get_repository(database) from registry state r: the memoized adapter, or a
\* new one constructed and inserted (each constructor only stores its
\* arguments; postgres also creates its engine).  The else branch raises.
get_repository(r, tag) ==
    IF InRegistry(r.repos, tag)
    THEN [r |-> r, inst |-> Lookup(r.repos, tag), exc |-> ""]
    ELSE IF tag \notin Backends
    THEN [r |-> r, inst |-> None, exc |-> "ValueError"]
    ELSE LET repo == Inst(tag, r.built[tag] + 1) IN
         [r |-> [repos |-> Append(r.repos, [tag |-> tag, inst |-> repo]),
                 adapters |-> Put(r.adapters, repo, NewAdapter),
                 built |-> [r.built EXCEPT ![tag] = @ + 1],
                 sinceClear |-> [r.sinceClear EXCEPT ![tag] = @ + 1]],
          inst |-> repo, exc |-> ""]

\* Faulty variant of resolve_repository, used to test C9: the tag goes to
\* get_repository unchecked.
resolve_repository_unchecked(r, tag) == get_repository(r, tag)

\* resolve_repository(database): None for a tag outside DATABASE_TYPES
resolve_repository(r, tag) ==
    IF \A i \in 1..Len(DATABASE_TYPES) : DATABASE_TYPES[i] # tag
    THEN [r |-> r, inst |-> None, exc |-> ""]
    ELSE get_repository(r, tag)

SetRegState(r) ==
    /\ repositories' = r.repos
    /\ adapters' = r.adapters
    /\ built' = r.built
    /\ sinceClear' = r.sinceClear

\* disconnect_databases is between two awaits: the event loop runs nothing else
Running == dpc = "loop" /\ ~diter.yielded

\* the constructions a step makes stay within the run's bound
CanBuild(tags) ==
    \A tag \in tags \cap Backends :
        ~InRegistry(repositories, tag) => built[tag] < MaxBuilds

\* A request handler calls resolve_repository(tag): no await, one step.
Resolve(t, tag) ==
    LET res == resolve_repository(RegState, tag) IN
    /\ ~Running
    /\ ipc = "idle"
    /\ got[t] = NoGot
    /\ CanBuild({tag})
    /\ SetRegState(res.r)
    /\ got' = [got EXCEPT ![t] = [tag |-> tag, inst |-> res.inst, exc |-> res.exc,
                                  stale |-> FALSE]]
    /\ lazy' = [lazy EXCEPT !.asked = @ \cup {tag}]
    /\ UNCHANGED <<dpc, diter, dret, dcalls, ipc, probes, restVars>>

\* cassandra's _connect submits to self._executor: after disconnect() shut
\* it down, that is a RuntimeError and no session is made.
CanConnect(inst) == ~(inst[1] = "cassandra" /\ adapters[inst].closed)

\* The handler's operation on the adapter it resolved runs _connect
\* (mongodb, redis, cassandra: the client is created when there is none;
\* postgres: the session takes a connection into the engine's pool).
UseAdapter(t) ==
    /\ ~Running
    /\ ipc = "idle"
    /\ got[t].inst # None
    /\ CanConnect(got[t].inst)
    /\ ~adapters[got[t].inst].client
    /\ adapters' = [adapters EXCEPT ![got[t].inst].client = TRUE]
    /\ UNCHANGED <<repositories, built, sinceClear, got, dpc, diter, dret, dcalls,
                   ipc, probes, repoVars>>

\* initialize_databases: the list comprehension calls get_repository(db) for
\* every db of DATABASE_TYPES in order and creates its health_check coroutine.
\* GetAll gives the registry state afterwards and the adapters returned.
RECURSIVE GetAll(_, _, _)
GetAll(r, i, insts) ==
    IF i > Len(DATABASE_TYPES) THEN [r |-> r, insts |-> insts]
    ELSE LET g == get_repository(r, DATABASE_TYPES[i]) IN
         GetAll(g.r, i + 1, Append(insts, g.inst))

\* It is awaited in the application's startup (lifespan): while it runs,
\* no handler and no disconnect_databases does.
InitializeDatabases ==
    LET all == GetAll(RegState, 1, <<>>) IN
    /\ dpc = "idle"
    /\ ipc = "idle"
    /\ CanBuild(Backends)
    /\ SetRegState(all.r)
    /\ probes' = [tag \in Backends |->
                    [inst |-> all.insts[CHOOSE i \in 1..Len(DATABASE_TYPES) :
                                           DATABASE_TYPES[i] = tag],
                     probe |-> "", result |-> "pending"]]
    /\ ipc' = "gather"
    /\ lazy' = [lazy EXCEPT !.eager = TRUE]
    /\ UNCHANGED <<got, dpc, diter, dret, dcalls, restVars>>

\* Faulty variant of health_check, used to test C12: no except clause.
health_check_noexcept(probe) == IF probe = "ok" THEN "True" ELSE "raise"

\* Faulty variant of health_check, used to test C13: return True on both paths.
health_check_true(probe) == "True"

\* health_check: try: connect, probe, return True; except Exception: return
\* False.  probe is how connecting and probing went: "ok" or "fault".
health_check(probe) == IF probe = "ok" THEN "True" ELSE "False"

\* One gathered health_check runs, for initialize_databases or for the
\* health endpoint: the probe answers, or connecting or
\* probing fails.  mongodb and redis create their client before they probe;
\* postgres' connection and cassandra's session exist once connecting
\* succeeded, which a cassandra adapter that was disconnected cannot.
HealthCheck(tag) ==
    /\ ipc \in {"gather", "health"}
    /\ probes[tag].result = "pending"
    /\ \E ok \in BOOLEAN, connected \in BOOLEAN :
          /\ tag \in {"mongodb", "redis"} => connected
          /\ ok => connected
          /\ connected => CanConnect(probes[tag].inst)
          /\ probes' = [probes EXCEPT
                           ![tag].probe = IF ok THEN "ok" ELSE "fault",
                           ![tag].result = health_check(IF ok THEN "ok" ELSE "fault")]
          /\ adapters' = [adapters EXCEPT ![probes[tag].inst].client = @ \/ connected]
    /\ UNCHANGED <<repositories, built, sinceClear, got, dpc, diter, dret, dcalls,
                   ipc, repoVars>>

\* gather has every result: initialize_databases returns.  An exception of a
\* gathered coroutine leaves gather, and initialize_databases, at once: the
\* startup fails.
InitializeDone ==
    LET raised == \E tag \in Backends : probes[tag].result = "raise" IN
    /\ ipc = "gather"
    /\ raised \/ \A tag \in Backends : probes[tag].result # "pending"
    /\ ipc' = IF raised THEN "raised" ELSE "idle"
    /\ probes' = [tag \in Backends |-> [inst |-> None, probe |-> "", result |-> ""]]
    /\ UNCHANGED <<repositories, adapters, built, sinceClear, got, dpc, diter,
                   dret, dcalls, repoVars>>

\* disconnect_databases starts: iter(_repositories.values()) notes the size.
DisconnectDatabases ==
    /\ ~Running
    /\ ipc = "idle"
    /\ dpc = "idle"
    /\ dpc' = "loop"
    /\ diter' = [pos |-> 0, used |-> Len(repositories), yielded |-> FALSE,
                 start |-> repositories, again |-> FALSE]
    /\ dret' = ""
    /\ dcalls' = <<>>
    /\ UNCHANGED <<repositories, adapters, built, sinceClear, got, ipc, probes,
                   repoVars>>

\* disconnect() of this adapter awaits its client (the loop may run others):
\* postgres' engine.dispose() and redis' client.close().  mongodb's and
\* cassandra's disconnect make blocking calls only.
Suspends(inst) ==
    \/ inst[1] = "postgres"
    \/ inst[1] = "redis" /\ adapters[inst].client

\* Faulty variant of MayRaise, used to test C18: close() is called on the
\* client without the test for None.
MayRaiseUnguarded(inst) == TRUE

\* disconnect() of this adapter has something to close, which may fail: a
\* client (mongodb, redis), a cluster (cassandra), pooled connections
\* (postgres).  With none of them it only sets fields and shuts the executor.
MayRaise(inst) == adapters[inst].client

\* the adapter after its disconnect() returned
Released == [client |-> FALSE, closed |-> TRUE]

\* The for loop's next(): a dict that changed size since iter() is a RuntimeError.
DisconnectChanged ==
    /\ dpc = "loop"
    /\ Len(repositories) # diter.used
    /\ dpc' = "done"
    /\ dret' = "RuntimeError"
    /\ UNCHANGED <<repositories, adapters, built, sinceClear, got, diter, dcalls,
                   ipc, probes, repoVars>>

\* await repo.disconnect() returns: the adapter dropped its client.
\* diter.again notes that this adapter had been disconnected before.
DisconnectOne ==
    LET repo == repositories[diter.pos + 1].inst IN
    /\ dpc = "loop"
    /\ Len(repositories) = diter.used
    /\ diter.pos < Len(repositories)
    /\ adapters' = [adapters EXCEPT ![repo] = Released]
    /\ dcalls' = Append(dcalls, repo)
    /\ diter' = [diter EXCEPT !.pos = @ + 1, !.yielded = Suspends(repo),
                              !.again = adapters[repo].closed]
    /\ UNCHANGED <<repositories, built, sinceClear, got, dpc, dret, ipc, probes,
                   repoVars>>

\* await repo.disconnect() raises: nothing catches it, disconnect_databases
\* ends with the exception.
DisconnectRaises ==
    LET repo == repositories[diter.pos + 1].inst IN
    /\ dpc = "loop"
    /\ Len(repositories) = diter.used
    /\ diter.pos < Len(repositories)
    /\ MayRaise(repo)
    /\ dcalls' = Append(dcalls, repo)
    /\ dpc' = "done"
    /\ dret' = "DisconnectFault"
    /\ UNCHANGED <<repositories, adapters, built, sinceClear, got, diter, ipc,
                   probes, repoVars>>

\* Faulty variant of DisconnectClear, used to test C11: the loop ends without
\* _repositories.clear().
DisconnectNoClear ==
    /\ dpc = "loop"
    /\ Len(repositories) = diter.used
    /\ diter.pos = Len(repositories)
    /\ dpc' = "done"
    /\ dret' = "ok"
    /\ UNCHANGED <<repositories, adapters, sinceClear, got, built, diter, dcalls,
                   ipc, probes, repoVars>>

\* The loop is exhausted: _repositories.clear().  The adapters no handler
\* still holds are garbage.
DisconnectClear ==
    /\ dpc = "loop"
    /\ Len(repositories) = diter.used
    /\ diter.pos = Len(repositories)
    /\ repositories' = <<>>
    /\ adapters' = [i \in {got[t].inst : t \in Tasks} \cap DOMAIN adapters |->
                       adapters[i]]
    /\ sinceClear' = [tag \in Backends |-> 0]
    /\ got' = [t \in Tasks |-> IF got[t] = NoGot THEN NoGot
                                ELSE [got[t] EXCEPT !.stale = TRUE]]
    /\ dpc' = "done"
    /\ dret' = "ok"
    /\ lazy' = [asked |-> {}, eager |-> FALSE]
    /\ UNCHANGED <<built, diter, dcalls, ipc, probes, restVars>>

\* The caller of disconnect_databases takes its outcome.
DisconnectReturn ==
    /\ dpc = "done"
    /\ dpc' = "idle"
    /\ dret' = ""
    /\ dcalls' = <<>>
    /\ diter' = [pos |-> 0, used |-> 0, yielded |-> FALSE, start |-> <<>>,
                 again |-> FALSE]
    /\ UNCHANGED <<repositories, adapters, built, sinceClear, got, ipc, probes,
                   repoVars>>

\* ----------------------------------------------------------- db routes
\* The six route functions of db_router.
Routes == {"create_user", "get_user", "update_user", "delete_user",
           "delete_all_users", "reset_database"}

\* A JSON response: status code and content.  error and details are the keys
\* of an error payload ("" when the key is absent), body says what a success
\* payload is: the User, {"success": True} or {"status": "ok"}.
NoResp == [status |-> 0, error |-> "", details |-> "", body |-> "", user |-> None]

\* make_error(error, detail): the details key is there when the message, or
\* the text of the exception, is not empty.
make_error(error, msg) == [error |-> error, details |-> msg]

\* HTTPException(status_code=, detail=); str is the text str() gives.
HTTPException(status_code, detail) ==
    [http |-> TRUE, status_code |-> status_code, detail |-> detail,
     str |-> "HTTPException"]

\* The handler registered for HTTPException: a detail that is a dict with an
\* "error" key is the content, under the exception's status code; any other
\* detail becomes the value of "error".
http_exception_handler(exc) ==
    [NoResp EXCEPT !.status = exc.status_code,
                   !.error = exc.detail.error,
                   !.details = exc.detail.details]

\* Faulty variant of Absent, used to test C19: no route tests the result.
AbsentNever(r, res) == FALSE

\* The route's test of the operation's result: `if user is None` in get_user
\* and update_user, `if not deleted` in delete_user, none in the others.
Absent(r, res) ==
    \/ r \in {"get_user", "update_user"} /\ res.kind = "none"
    \/ r = "delete_user" /\ res.kind = "bool" /\ ~res.ok

\* Faulty variant of Except, used to test C20: no `except HTTPException: raise`.
ExceptNoReraise(r, e) ==
    HTTPException(500, make_error("internal error", e.str))

\* The except clauses of the route's try: get_user, update_user and
\* delete_user raise the HTTPException of their try block again; every other
\* exception becomes HTTPException(500, make_error(INTERNAL_ERROR, e)).
Except(r, e) ==
    IF e.http /\ r \in {"get_user", "update_user", "delete_user"}
    THEN e
    ELSE HTTPException(500, make_error("internal error", e.str))

\* Faulty variant of Success, used to test C22: create_user without
\* status_code=201, and delete_user returning the status payload.
SuccessPlain(r, res) ==
    [NoResp EXCEPT
        !.status = 200,
        !.body = IF r \in {"create_user", "get_user", "update_user"} THEN "user"
                 ELSE "status",
        !.user = IF r \in {"create_user", "get_user", "update_user"}
                 THEN res.user ELSE None]

\* What the route returns: the User with 201 (create_user) or 200 (get_user,
\* update_user), {"success": True} (delete_user, delete_all_users),
\* {"status": "ok"} (reset_database).
Success(r, res) ==
    [NoResp EXCEPT
        !.status = IF r = "create_user" THEN 201 ELSE 200,
        !.body = IF r \in {"create_user", "get_user", "update_user"} THEN "user"
                 ELSE IF r = "reset_database" THEN "status"
                 ELSE "success",
        !.user = IF r \in {"create_user", "get_user", "update_user"}
                 THEN res.user ELSE None]

\* The response of route r, where g is what resolve_repository returned and
\* res the outcome of the adapter's operation (not looked at when repo is
\* None).
RouteResponse(r, g, res) ==
    LET tried == IF res.kind = "raise"
                 THEN Some([http |-> FALSE, status_code |-> 0,
                            detail |-> make_error("", ""), str |-> res.exc])
                 ELSE IF Absent(r, res)
                 THEN Some(HTTPException(404,
                              make_error("not found", "user with id {id} not found")))
                 ELSE None
    IN
    IF g.inst = None
    THEN http_exception_handler(HTTPException(404,
             make_error("not found", "unknown database type: " \o g.tag)))
    ELSE IF tried # None
    THEN http_exception_handler(Except(r, Get(tried)))
    ELSE Success(r, res)

\* A request is dispatched to its route function; requests are served one at
\* a time.
Receive(t, r) ==
    /\ \A u \in Tasks : route[u] = "" /\ pc[u] = "idle"
    /\ route' = [route EXCEPT ![t] = r]
    /\ UNCHANGED <<backend, storeVars, connVars, nextId, taskVars, histVars, calls,
                   repositories, adapters, built, sinceClear, got, dpc, diter,
                   dret, dcalls, lazy, executor, ipc, probes, resp>>

\* try: await repo.<operation>(...), on the adapter of the run's backend.
CallOp(t) ==
    /\ route[t] # ""
    /\ resp[t] = NoResp
    /\ got[t].inst # None
    /\ got[t].tag = backend
    /\ pc[t] = "idle"
    /\ UNCHANGED calls
    /\ \/ route[t] = "create_user" /\ \E d \in CreateUser : Create(t, d)
       \/ route[t] = "get_user" /\ \E id \in IdStrings : FindById(t, id)
       \/ route[t] = "update_user"
            /\ \E id \in IdStrings, d \in UpdateUser : Update(t, id, d)
       \/ route[t] = "delete_user" /\ \E id \in IdStrings : Delete(t, id)
       \/ route[t] \in {"delete_all_users", "reset_database"} /\ DeleteAll(t)

\* The route raises or returns, and the response is made: right after
\* resolve_repository when repo is None, else when the operation ended.
Respond(t) ==
    /\ route[t] # ""
    /\ resp[t] = NoResp
    /\ got[t] # NoGot
    /\ got[t].inst = None \/ pc[t] = "done"
    /\ resp' = [resp EXCEPT ![t] = RouteResponse(route[t], got[t], ret[t])]
    /\ UNCHANGED <<backend, storeVars, connVars, nextId, taskVars, histVars, calls,
                   repositories, adapters, built, sinceClear, got, dpc, diter,
                   dret, dcalls, lazy, executor, ipc, probes, route>>

\* The response is sent and the request is over.
Send(t) ==
    /\ resp[t] # NoResp
    /\ pc[t] = "idle"
    /\ route' = [route EXCEPT ![t] = ""]
    /\ resp' = [resp EXCEPT ![t] = NoResp]
    /\ got' = [got EXCEPT ![t] = NoGot]
    /\ UNCHANGED <<backend, storeVars, connVars, nextId, taskVars, histVars, calls,
                   repositories, adapters, built, sinceClear, dpc, diter,
                   dret, dcalls, lazy, executor, ipc, probes>>

\* ----------------------------------------------------- health endpoint
\* check_db(db_type) of health(): p is the probe record of the db, whose inst
\* is repositories.get(db_type) and whose result is what health_check gave.
check_db(p) ==
    IF p.inst = None THEN "unhealthy"
    ELSE IF p.result = "True" THEN "healthy"
    ELSE "unhealthy"

\* GET /health starts: repositories = get_all_repositories() (imported from
\* the registry module: the adapters registered so far, none is constructed),
\* then one check_db per DATABASE_TYPES entry is gathered.
Health(t) ==
    /\ ipc = "idle"
    /\ dpc = "idle"
    /\ \A u \in Tasks : route[u] = "" /\ pc[u] = "idle"
    /\ route' = [route EXCEPT ![t] = "health"]
    /\ probes' = [tag \in Backends |->
                    IF InRegistry(repositories, tag)
                    THEN [inst |-> Lookup(repositories, tag), probe |-> "",
                          result |-> "pending"]
                    ELSE [inst |-> None, probe |-> "", result |-> "absent"]]
    /\ ipc' = "health"
    /\ UNCHANGED <<backend, storeVars, connVars, nextId, taskVars, histVars, calls,
                   repositories, adapters, built, sinceClear, got, dpc, diter,
                   dret, dcalls, lazy, executor, resp>>

\* gather has every check_db result: health() returns its dict, which the
\* framework sends with status 200.
HealthDone(t) ==
    /\ ipc = "health"
    /\ route[t] = "health"
    /\ resp[t] = NoResp
    /\ \A tag \in Backends : probes[tag].result # "pending"
    /\ resp' = [resp EXCEPT ![t] =
                  [status |-> 200, error |-> "", details |-> "", body |-> "healthy",
                   user |-> None,
                   databases |-> [tag \in Backends |-> check_db(probes[tag])]]]
    /\ probes' = [tag \in Backends |-> [inst |-> None, probe |-> "", result |-> ""]]
    /\ ipc' = "idle"
    /\ UNCHANGED <<backend, storeVars, connVars, nextId, taskVars, histVars, calls,
                   repositories, adapters, built, sinceClear, got, dpc, diter,
                   dret, dcalls, lazy, executor, route>>

\* -------------------------------------------------------- specifications
\* The state after the adapter's construction, on an empty users collection.
\* PostgresUserRepository.__init__ creates its engine; the other adapters
\* start without a client.
\* ------------------------------------------- cassandra's thread pool
\* ThreadPoolExecutor(max_workers=4)
max_workers == 4

\* Requests that are inside _execute at the same time.
Callers == 1..MaxCallers

\* The executor after __init__: no worker thread yet, an empty work queue.
\* fut[c] is the state of the future caller c awaits ("" when it awaits
\* none): _execute awaits one for _connect_sync and then one for the query.
NewExecutor == [queue |-> <<>>, threads |-> 0, fut |-> [c \in Callers |-> ""]]

InFlight(e) == {c \in Callers : e.fut[c] = "running"}

\* Faulty variant of Submit, used to test C28: a thread is started for every
\* job that finds no free one, whatever their number.
SubmitUncapped(e, c) ==
    [queue |-> Append(e.queue, c),
     threads |-> IF Cardinality(InFlight(e)) + Len(e.queue) >= e.threads
                 THEN e.threads + 1 ELSE e.threads,
     fut |-> [e.fut EXCEPT ![c] = "queued"]]

\* loop.run_in_executor(self._executor, fn): the job is put on the work
\* queue, and a worker thread is started when no thread is free for it and
\* fewer than max_workers exist.
Submit(e, c) ==
    [queue |-> Append(e.queue, c),
     threads |-> IF Cardinality(InFlight(e)) + Len(e.queue) >= e.threads
                    /\ e.threads < max_workers
                 THEN e.threads + 1 ELSE e.threads,
     fut |-> [e.fut EXCEPT ![c] = "queued"]]

poolRest == <<backend, store, pgLock, conn, connects, nextId,
              pc, op, arg, data, loc, ret, store0, created, fresh, removed, wiped,
              patched, calls, repositories, adapters, built, sinceClear, got, dpc,
              diter, dret, dcalls, ipc, probes, route, resp, lazy>>

\* A request in _execute hands a blocking call to the executor and awaits
\* it: _connect_sync in _connect, session.execute in _execute.
RunInExecutor(c) ==
    /\ executor.fut[c] = ""
    /\ executor' = Submit(executor, c)
    /\ UNCHANGED poolRest

\* A worker thread that runs no job takes the oldest job of the queue.
PoolTake(c) ==
    /\ executor.queue # <<>>
    /\ c = Head(executor.queue)
    /\ Cardinality(InFlight(executor)) < executor.threads
    /\ executor' = [executor EXCEPT !.queue = Tail(@), !.fut[c] = "running"]
    /\ UNCHANGED poolRest

\* The blocking driver call returns or raises in its thread; the future is
\* completed.
PoolComplete(c) ==
    /\ executor.fut[c] = "running"
    /\ executor' = [executor EXCEPT !.fut[c] = "done"]
    /\ UNCHANGED poolRest

\* The event loop resumes the caller with the job's result or exception.
PoolResume(c) ==
    /\ executor.fut[c] = "done"
    /\ executor' = [executor EXCEPT !.fut[c] = ""]
    /\ UNCHANGED poolRest

InitRepo ==
    /\ backend \in Backends
    /\ store = EmptyStore
    /\ pgLock = [x \in {} |-> 0]
    /\ conn = (backend = "postgres")
    /\ connects = IF backend = "postgres" THEN 1 ELSE 0
    /\ nextId = 1
    /\ pc = [t \in Tasks |-> "idle"]
    /\ op = [t \in Tasks |-> ""]
    /\ arg = [t \in Tasks |-> NoId]
    /\ data = [t \in Tasks |-> NoData]
    /\ loc = [t \in Tasks |-> NoLoc]
    /\ ret = [t \in Tasks |-> Pending]
    /\ store0 = [t \in Tasks |-> EmptyStore]
    /\ created = {}
    /\ fresh = [x \in {} |-> 0]
    /\ removed = {}
    /\ wiped = {}
    /\ patched = [x \in {} |-> 0]
    /\ calls = 0

\* The registry module after import: _repositories = {}
InitReg ==
    /\ repositories = <<>>
    /\ adapters = [x \in {} |-> NewAdapter]
    /\ built = [tag \in Backends |-> 0]
    /\ sinceClear = [tag \in Backends |-> 0]
    /\ got = [t \in Tasks |-> NoGot]
    /\ dpc = "idle"
    /\ diter = [pos |-> 0, used |-> 0, yielded |-> FALSE, start |-> <<>>,
                 again |-> FALSE]
    /\ dret = ""
    /\ dcalls = <<>>
    /\ ipc = "idle"
    /\ probes = [tag \in Backends |-> [inst |-> None, probe |-> "", result |-> ""]]
    /\ route = [t \in Tasks |-> ""]
    /\ resp = [t \in Tasks |-> NoResp]
    /\ lazy = [asked |-> {}, eager |-> FALSE]
    /\ executor = NewExecutor

Init == InitRepo /\ InitReg

\* no other call is in progress
Quiet == \A u \in Tasks : pc[u] = "idle"

\* Sequential use of one adapter: a call starts when no other is in progress.
Next ==
    \E t \in Tasks :
        \/ Quiet /\ UNCHANGED calls /\ \E d \in CreateUser : Create(t, d)
        \/ Quiet /\ UNCHANGED calls /\ \E id \in IdStrings : FindById(t, id)
        \/ Quiet /\ UNCHANGED calls
                 /\ \E id \in IdStrings, d \in UpdateUser : Update(t, id, d)
        \/ Quiet /\ UNCHANGED calls /\ \E id \in IdStrings : Delete(t, id)
        \/ Quiet /\ UNCHANGED calls /\ DeleteAll(t)
        \/ Step(t)
        \/ Fault(t)
        \/ Return(t)

Spec == Init /\ [][Next]_vars

\* Concurrent request handlers on one adapter: a handler starts its call
\* whenever it is idle, and the calls interleave at their awaits.
Called == calls < MaxCalls /\ calls' = calls + 1

\* The handlers race on the ids create returned, with patches of one field
\* or none.
CreatedIds == {FormatId(n) : n \in 1..MaxIds}

SmallPatches ==
    {d \in UpdateUser :
        Cardinality({f \in {"name", "email", "favoriteNumber"} : d[f] # None}) <= 1}

NextConcurrent ==
    \E t \in Tasks :
        \/ Called /\ \E d \in CreateUser : Create(t, d)
        \/ Called /\ \E id \in CreatedIds : FindById(t, id)
        \/ Called /\ \E id \in CreatedIds, d \in SmallPatches : Update(t, id, d)
        \/ Called /\ \E id \in CreatedIds : Delete(t, id)
        \/ Called /\ DeleteAll(t)
        \/ Step(t)
        \/ Fault(t)
        \/ Return(t)

SpecConcurrent == Init /\ [][NextConcurrent]_vars

\* The registry under concurrent request handlers (each resolves its adapter
\* once and keeps it) and the lifecycle calls.
InitRegistry == Init /\ backend = DATABASE_TYPES[1]

NextRegistry ==
    \/ \E t \in Tasks, tag \in Tags : Resolve(t, tag)
    \/ \E t \in Tasks : UseAdapter(t)
    \/ InitializeDatabases
    \/ \E tag \in Backends : HealthCheck(tag)
    \/ InitializeDone
    \/ DisconnectDatabases
    \/ DisconnectChanged
    \/ DisconnectOne
    \/ DisconnectRaises
    \/ DisconnectClear
    \/ DisconnectReturn

SpecRegistry == InitRegistry /\ [][NextRegistry]_vars

\* Requests to the db routes of one backend, or with a path segment that
\* names none, served one at a time.
NextRoutes ==
    \E t \in Tasks :
        \/ \E r \in Routes : Receive(t, r)
        \/ route[t] # "" /\ \E tag \in {backend, "not-a-backend"} : Resolve(t, tag)
        \/ CallOp(t)
        \/ Step(t)
        \/ Fault(t)
        \/ Respond(t)
        \/ resp[t] # NoResp /\ Return(t)
        \/ Send(t)

SpecRoutes == Init /\ [][NextRoutes]_vars

\* The health endpoint, before and after the startup filled the registry.
NextHealth ==
    \/ InitializeDatabases
    \/ \E tag \in Backends : HealthCheck(tag)
    \/ InitializeDone
    \/ \E t \in Tasks : Health(t)
    \/ \E t \in Tasks : HealthDone(t)
    \/ \E t \in Tasks : Send(t)

SpecHealth == InitRegistry /\ [][NextHealth]_vars

\* The key-value adapter reading hashes that another client of the same
\* server wrote under its 'user:' keys: fields missing, a favoriteNumber that
\* is text but no number, or bytes that are no text at all.
StoredHashes ==
    [name : {None, Some(Encode("Ada"))},
     email : {None, Some(Encode("ada@x.io"))},
     fav : {None, Some(Encode(<<"7">>)), Some(Encode(<<"x">>)),
            Some(Encode(<<>>)), Some(NotUtf8)}] \ {Row(None, None, None)}

ForeignHset(k, h) ==
    /\ Quiet
    /\ backend = "redis"
    /\ k \in DOMAIN store
    /\ store' = Put(store, k, h)
    /\ UNCHANGED <<backend, pgLock, connVars, nextId, taskVars, histVars, calls,
                   regVars>>

NextCorrupt ==
    \/ \E t \in Tasks, d \in CreateUser : Quiet /\ UNCHANGED calls /\ Create(t, d)
    \/ \E t \in Tasks, id \in CreatedIds :
           Quiet /\ UNCHANGED calls /\ FindById(t, id)
    \/ \E t \in Tasks : Step(t)
    \/ \E t \in Tasks : Return(t)
    \/ \E k \in DOMAIN store, h \in StoredHashes : ForeignHset(k, h)

InitCorrupt == Init /\ backend = "redis"

\* One cassandra adapter under more concurrent requests than its executor
\* has threads.  Threads get the processor, driver calls end (the driver's
\* request timeout) and the event loop runs the callbacks that are ready.
InitPool == Init /\ backend = "cassandra"

NextPool ==
    \/ \E c \in Callers : RunInExecutor(c)
    \/ \E c \in Callers : PoolTake(c)
    \/ \E c \in Callers : PoolComplete(c)
    \/ \E c \in Callers : PoolResume(c)

SpecPool ==
    /\ InitPool
    /\ [][NextPool]_vars
    /\ \A c \in Callers :
          /\ WF_vars(PoolTake(c))
          /\ WF_vars(PoolComplete(c))
          /\ WF_vars(PoolResume(c))

SpecCorrupt == InitCorrupt /\ [][NextCorrupt]_vars

\* ------------------------------------------------- observing the store
\* the native key an id string addresses in the backend's store
KeyOf(id) == IF backend = "redis" THEN RdKey(id) ELSE id.n

RowFields == {"name", "email", "fav"}

\* the patch's value for a column
PatchOf(d, f) == IF f = "fav" THEN d.favoriteNumber ELSE d[f]

\* a stored column as a User field: redis keeps bytes, and numbers in decimal
PlainField(f, v) ==
    IF v = None THEN None
    ELSE IF backend # "redis" THEN v
    ELSE IF f = "fav" THEN Some(NatOfDigits(Get(v).v))
    ELSE Some(Get(v).v)

\* the User the row under key k stands for
StoredUser(k) ==
    [id |-> IF backend = "redis" THEN k[2] ELSE FormatId(k),
     name |-> Get(PlainField("name", store[k].name)),
     email |-> Get(PlainField("email", store[k].email)),
     favoriteNumber |-> PlainField("fav", store[k].fav)]

\* the id string does not parse as the backend's native id (redis takes any)
Unparsable(id) ==
    CASE backend \in {"postgres", "cassandra"} -> UUID(id).exc # ""
      [] backend = "mongodb" -> ObjectId(id).exc # ""
      [] OTHER -> FALSE

\* what an operation returns for an id with no row
NotFound(o) == IF o = "delete" THEN RetBool(FALSE) ELSE RetNone

\* ------------------------------------------------------------ properties
\* C1: on every adapter, find_by_id(r.id) of a user r that create returned and
\* no update, delete or delete_all was started on since returns a User equal to
\* r in id, name, email and favoriteNumber (None included), when it returns.
C1_CreateFindRoundTrip ==
    \A t \in Tasks :
        (/\ pc[t] = "done"
         /\ op[t] = "find_by_id"
         /\ ret[t].kind # "raise"
         /\ arg[t].form = "canon"
         /\ arg[t].n \in DOMAIN fresh)
        => ret[t] = RetUser(fresh[arg[t].n])

\* a find_by_id gave back a created user whose favoriteNumber is absent
C1_Witness ==
    \E t \in Tasks :
        /\ pc[t] = "done"
        /\ op[t] = "find_by_id"
        /\ arg[t].form = "canon"
        /\ arg[t].n \in DOMAIN fresh
        /\ ret[t].kind = "user"
        /\ Get(ret[t].user).favoriteNumber = None
        /\ Get(ret[t].user).name = "Ada"

\* C2: on every adapter, in a sequential run, delete(i) of a created id i
\* returns True exactly when i is still stored (no delete returned True for it
\* and no delete_all removed it), so True is returned at most once per created
\* user and every later delete(i) returns False; find_by_id(i) returns None
\* once a delete(i) has returned True.
C2_DeleteTrueOnce ==
    \A t \in Tasks :
        (pc[t] = "done" /\ arg[t].form = "canon" /\ arg[t].n \in created) =>
            /\ (op[t] = "delete" /\ ret[t].kind = "bool")
                  => (ret[t].ok <=> arg[t].n \notin removed \cup wiped)
            /\ (op[t] = "find_by_id" /\ ret[t].kind # "raise" /\ arg[t].n \in removed)
                  => ret[t] = RetNone

\* a later delete of an id whose first delete returned True returns False
C2_Witness ==
    \E t \in Tasks :
        /\ pc[t] = "done"
        /\ op[t] = "delete"
        /\ arg[t].form = "canon"
        /\ arg[t].n \in removed
        /\ arg[t].n \notin wiped
        /\ ret[t] = RetBool(FALSE)

\* C3: on every adapter, update(id, patch) of an existing id leaves every
\* other user's record and every column whose patch field is None as they
\* were (a None never clears a stored value, no record appears or goes), and
\* when it returns a user every column whose patch field is not None holds the
\* patch's value.
C3_PartialUpdate ==
    \A t \in Tasks :
        (pc[t] = "done" /\ op[t] = "update" /\ KeyOf(arg[t]) \in DOMAIN store0[t]) =>
            LET k == KeyOf(arg[t])
                old == store0[t]
            IN
            /\ DOMAIN store = DOMAIN old
            /\ \A j \in DOMAIN old \ {k} : store[j] = old[j]
            /\ \A f \in RowFields :
                  PatchOf(data[t], f) = None => store[k][f] = old[k][f]
            /\ ret[t].kind = "user" =>
                  \A f \in RowFields :
                      PatchOf(data[t], f) # None =>
                          PlainField(f, store[k][f]) = PatchOf(data[t], f)

\* an update with only favoriteNumber set changed the row of one of two users
C3_Witness ==
    \E t \in Tasks :
        /\ pc[t] = "done"
        /\ op[t] = "update"
        /\ KeyOf(arg[t]) \in DOMAIN store0[t]
        /\ Cardinality(DOMAIN store0[t]) > 1
        /\ data[t] = [NoData EXCEPT !.favoriteNumber = Some(42)]
        /\ ret[t].kind = "user"
        /\ store[KeyOf(arg[t])] # store0[t][KeyOf(arg[t])]

\* C4: on every adapter, update(id, patch) with no field set writes nothing
\* to the store, and returns the stored User when id exists and None when it
\* does not.
C4_EmptyPatchNoOp ==
    \A t \in Tasks :
        (pc[t] # "idle" /\ op[t] = "update" /\ data[t] = NoData) =>
            /\ store = store0[t]
            /\ (pc[t] = "done" /\ ret[t].kind # "raise") =>
                  ret[t] = IF KeyOf(arg[t]) \in DOMAIN store
                           THEN RetUser(StoredUser(KeyOf(arg[t])))
                           ELSE RetNone

\* an update with no field set returned the user of an existing id
C4_Witness ==
    \E t \in Tasks :
        /\ pc[t] = "done"
        /\ op[t] = "update"
        /\ data[t] = NoData
        /\ KeyOf(arg[t]) \in DOMAIN store
        /\ ret[t].kind = "user"

\* C5: on every adapter, find_by_id, update and delete of an id string that
\* does not parse as the backend's native id return at once what they return
\* for a well-formed id with no row (None, None, False), do not raise and
\* leave the store unchanged.
C5_UnparsableIdIsNotFound ==
    \A t \in Tasks :
        (pc[t] # "idle" /\ op[t] \in {"find_by_id", "update", "delete"}) =>
            /\ Unparsable(arg[t]) =>
                  /\ pc[t] = "done"
                  /\ ret[t] = NotFound(op[t])
                  /\ store = store0[t]
            /\ (/\ ~Unparsable(arg[t])
                /\ KeyOf(arg[t]) \notin DOMAIN store0[t]
                /\ pc[t] = "done"
                /\ ret[t].kind # "raise") =>
                  /\ ret[t] = NotFound(op[t])
                  /\ store = store0[t]

\* a delete of an unparsable id returned False on a store that holds a user
C5_Witness ==
    \E t \in Tasks :
        /\ pc[t] = "done"
        /\ op[t] = "delete"
        /\ Unparsable(arg[t])
        /\ ret[t] = RetBool(FALSE)
        /\ DOMAIN store # {}

\* C6: on every adapter, when delete_all returns (nothing else running) no id
\* that create returned before has a row, and a find_by_id of such an id
\* returns None from then on.
C6_DeleteAllThenFind ==
    \A t \in Tasks :
        /\ (pc[t] = "done" /\ op[t] = "delete_all" /\ ret[t].kind = "void")
              => \A n \in created : KeyOf(FormatId(n)) \notin DOMAIN store
        /\ (/\ pc[t] = "done"
            /\ op[t] = "find_by_id"
            /\ ret[t].kind # "raise"
            /\ arg[t].form = "canon"
            /\ arg[t].n \in wiped)
              => ret[t] = RetNone

\* a find_by_id of an id only a delete_all removed returned None
C6_Witness ==
    \E t \in Tasks :
        /\ pc[t] = "done"
        /\ op[t] = "find_by_id"
        /\ arg[t].form = "canon"
        /\ arg[t].n \in wiped \ removed
        /\ ret[t] = RetNone

\* C7: resolve_repository calls of concurrent handlers for the same valid tag
\* on a registry with no adapter for it construct one adapter, and every one
\* of the calls returns that adapter.
C7_ConcurrentResolveOneInstance ==
    \A t1, t2 \in Tasks :
        (/\ got[t1].tag \in Backends
         /\ got[t2].tag = got[t1].tag
         /\ ~got[t1].stale
         /\ ~got[t2].stale)
        => /\ got[t1].inst # None
           /\ got[t1].inst = got[t2].inst
           /\ sinceClear[got[t1].tag] = 1

\* two handlers hold the adapter of the same tag, the first one made for it
C7_Witness ==
    \E t1, t2 \in Tasks :
        /\ t1 # t2
        /\ got[t1].tag \in Backends
        /\ got[t2].tag = got[t1].tag
        /\ ~got[t1].stale
        /\ ~got[t2].stale
        /\ got[t1].inst = got[t2].inst
        /\ built[got[t1].tag] = 1

\* C8 (as stated): over any sequence of resolve_repository,
\* initialize_databases and disconnect_databases calls at most one adapter is
\* ever constructed per backend tag.
C8_OneInstanceEver == \A tag \in Backends : built[tag] <= 1

\* C8 (amended): since the last time disconnect_databases cleared the registry
\* (or since the process started) at most one adapter was constructed per
\* backend tag, the registry holds that adapter and no other for the tag, and
\* every resolve_repository(tag) for a valid tag since then returned it.
C8_OneInstanceSinceClear ==
    /\ \A tag \in Backends :
          /\ sinceClear[tag] <= 1
          /\ Cardinality({i \in 1..Len(repositories) : repositories[i].tag = tag})
                = sinceClear[tag]
    /\ \A t \in Tasks :
          (got[t].tag \in Backends /\ ~got[t].stale) =>
              /\ InRegistry(repositories, got[t].tag)
              /\ got[t].inst = Lookup(repositories, got[t].tag)

\* a handler holds the second adapter constructed for its tag
C8_Witness ==
    \E t \in Tasks :
        /\ got[t].tag \in Backends
        /\ ~got[t].stale
        /\ built[got[t].tag] = 2
        /\ got[t].inst = Inst(got[t].tag, 2)

\* C9: resolve_repository(tag) with a tag outside DATABASE_TYPES returns None
\* without raising, constructs no adapter and leaves the registry as it was,
\* whatever the registry holds.
C9_UnknownTag ==
    [][\A t \in Tasks :
          (got[t] = NoGot /\ got'[t] # NoGot /\ got'[t].tag \notin Backends) =>
              /\ got'[t].inst = None
              /\ got'[t].exc = ""
              /\ repositories' = repositories
              /\ adapters' = adapters
              /\ built' = built]_vars

\* an unknown tag was resolved to None on a registry that holds an adapter
C9_Witness ==
    \E t \in Tasks :
        /\ got[t] # NoGot
        /\ got[t].tag \notin Backends
        /\ got[t].inst = None
        /\ repositories # <<>>

\* C11: the step in which disconnect_databases returns leaves the registry
\* empty, with disconnect invoked exactly once on each adapter that was in the
\* registry when it started (none when that registry was empty), and no step
\* of disconnect_databases constructs an adapter.
C11_DisconnectClearsRegistry ==
    [][(dpc # "done" /\ (dpc' # dpc \/ dcalls' # dcalls)) =>
          /\ built' = built
          /\ (dpc' = "done" /\ dret' = "ok") =>
                /\ repositories' = <<>>
                /\ dcalls' = [i \in 1..Len(diter.start) |-> diter.start[i].inst]]_vars

\* disconnect_databases returned after the disconnect of two adapters
C11_Witness ==
    /\ dpc = "done"
    /\ dret = "ok"
    /\ Len(diter.start) = 2
    /\ Len(dcalls) = 2
    /\ repositories = <<>>

\* C12: while initialize_databases gathers, every backend whose probe is
\* pending can run it whatever the other probes gave, and whichever probes
\* fail initialize_databases returns normally, after a probe of all four
\* backends gave True or False, with all four tags in the registry.
C12_InitializeToleratesFailedProbes ==
    /\ [](ipc = "gather" =>
            \A tag \in Backends :
                probes[tag].result = "pending" => ENABLED HealthCheck(tag))
    /\ [][(ipc = "gather" /\ ipc' # "gather") =>
              /\ ipc' = "idle"
              /\ \A tag \in Backends :
                    /\ probes[tag].result \in {"True", "False"}
                    /\ InRegistry(repositories', tag)]_vars

\* every probe has run, those of postgres and redis failed, the others did not
C12_Witness ==
    /\ ipc = "gather"
    /\ probes["postgres"].result = "False"
    /\ probes["redis"].result = "False"
    /\ probes["mongodb"].result = "True"
    /\ probes["cassandra"].result = "True"
    /\ \A tag \in Backends : InRegistry(repositories, tag)

\* C13: in every adapter state (never connected, connected, disconnected) a
\* health_check does not raise: it gives True when connecting and probing
\* succeeded and False when either failed.
C13_HealthCheckNeverRaises ==
    \A tag \in Backends :
        probes[tag].probe # "" =>
            /\ probes[tag].result \in {"True", "False"}
            /\ probes[tag].result = "True" <=> probes[tag].probe = "ok"

\* the health_check of a disconnected adapter gave False
C13_Witness ==
    \E tag \in Backends :
        /\ probes[tag].probe = "fault"
        /\ probes[tag].result = "False"
        /\ adapters[probes[tag].inst].closed

\* C14: an adapter creates at most one client/session object, however its
\* concurrent first operations interleave.
C14_OneConnectionPerAdapter == connects <= 1

\* C15: of the delete(id) calls of concurrent handlers on one row at most one
\* returns True, and none returns True for a row a delete already returned
\* True for.
C15_OneConcurrentDeleteWins ==
    \A t1, t2 \in Tasks :
        (/\ pc[t1] = "done"
         /\ op[t1] = "delete"
         /\ ret[t1] = RetBool(TRUE))
        => /\ arg[t1].n \notin removed
           /\ (/\ t2 # t1
               /\ pc[t2] = "done"
               /\ op[t2] = "delete"
               /\ arg[t2] = arg[t1]) => ret[t2] # RetBool(TRUE)

\* C16: on mongodb, under every interleaving with other handlers' deletes and
\* updates, an update with a non-empty patch that returns either returns None
\* having written nothing or returns the document as the store holds it right
\* after the update's write; and no document is stored under an id a delete
\* has returned True for.
C16_MongoUpdateAtomic ==
    /\ [](backend = "mongodb" =>
            /\ \A n \in removed : n \notin DOMAIN store
            /\ \A t \in Tasks :
                  (pc[t] = "done" /\ op[t] = "delete" /\ ret[t] = RetBool(TRUE))
                      => arg[t].n \notin DOMAIN store)
    /\ [][backend = "mongodb" =>
            \A t \in Tasks :
                (/\ op[t] = "update"
                 /\ data[t] # NoData
                 /\ pc[t] \notin {"idle", "done"}
                 /\ pc'[t] = "done"
                 /\ ret'[t].kind # "raise")
                => \/ ret'[t] = RetNone /\ store' = store
                   \/ /\ KeyOf(arg[t]) \in DOMAIN store'
                      /\ ret'[t] = RetUser(StoredUser(KeyOf(arg[t])))']_vars

\* on mongodb an update lost against the delete of the same document that
\* another handler ran at the same time, and returned None
C16_Witness ==
    \E t1, t2 \in Tasks :
        /\ backend = "mongodb"
        /\ pc[t1] = "done"
        /\ op[t1] = "update"
        /\ data[t1] # NoData
        /\ ret[t1] = RetNone
        /\ KeyOf(arg[t1]) \in DOMAIN store0[t1]
        /\ pc[t2] = "done"
        /\ op[t2] = "delete"
        /\ arg[t2] = arg[t1]
        /\ ret[t2] = RetBool(TRUE)
        /\ KeyOf(arg[t2]) \in DOMAIN store0[t2]

\* C17: whatever the adapter and the operation, when the store call an
\* operation is waiting for fails, the operation ends at once with that
\* exception as its outcome (not a User, None, a boolean or a plain return);
\* an ended operation makes no further store call and its outcome reaches the
\* caller unchanged.
C17_StorageFaultRaises ==
    [][\A t \in Tasks :
          /\ Fault(t) => /\ pc'[t] = "done"
                         /\ ret'[t].kind = "raise"
                         /\ ret'[t].exc = "StorageFault"
          /\ pc[t] = "done" => /\ ~Step(t)
                               /\ ~Fault(t)
                               /\ pc'[t] = "done" => ret'[t] = ret[t]]_vars

\* an update whose row was found ended with the store's fault
C17_Witness ==
    \E t \in Tasks :
        /\ pc[t] = "done"
        /\ op[t] = "update"
        /\ data[t] # NoData
        /\ KeyOf(arg[t]) \in DOMAIN store0[t]
        /\ ret[t] = RetRaise("StorageFault")

\* C18: the disconnect() of an adapter that holds no client, because it never
\* connected or because it was disconnected before, does not raise and leaves
\* the adapter in the released state; on an adapter disconnected before it
\* changes nothing.
C18_DisconnectIdempotent ==
    [][(dpc = "loop" /\ dcalls' # dcalls /\ dcalls' # <<>>) =>
          LET repo == dcalls'[Len(dcalls')] IN
          ~adapters[repo].client =>
              /\ dret' # "DisconnectFault"
              /\ adapters'[repo] = Released
              /\ adapters[repo].closed => adapters'[repo] = adapters[repo]]_vars

\* disconnect() returned on an adapter that an earlier disconnect() had
\* released
C18_Witness ==
    /\ dpc = "loop"
    /\ dcalls # <<>>
    /\ diter.again
    /\ adapters[dcalls[Len(dcalls)]] = Released

\* C19: on every db route the response is 404 exactly when the path segment
\* is none of the four tags, or find_by_id or update returned None, or delete
\* returned False; a 404 carries the "not found" payload and no other response
\* does; a request whose path segment is no tag never starts an adapter
\* operation.
C19_NotFoundMapping ==
    /\ [](\A t \in Tasks :
             (route[t] # "" /\ got[t] # NoGot /\ got[t].tag \notin Backends)
                 => pc[t] = "idle" /\ op[t] = "")
    /\ [][\A t \in Tasks :
             (resp[t] = NoResp /\ resp'[t] # NoResp) =>
                 /\ resp'[t].status = 404 <=>
                       \/ got[t].tag \notin Backends
                       \/ op[t] \in {"find_by_id", "update"} /\ ret[t] = RetNone
                       \/ op[t] = "delete" /\ ret[t] = RetBool(FALSE)
                 /\ resp'[t].status = 404 <=> resp'[t].error = "not found"]_vars

\* the delete route answered 404 after the adapter's delete returned False
C19_Witness ==
    \E t \in Tasks :
        /\ route[t] = "delete_user"
        /\ pc[t] = "done"
        /\ op[t] = "delete"
        /\ ret[t] = RetBool(FALSE)
        /\ resp[t].status = 404
        /\ resp[t].error = "not found"

\* C20: on every db route, the response is 500 exactly when the adapter's
\* operation raised, and a 500 carries the "internal error" payload and no
\* other response does.
C20_AdapterFaultIs500 ==
    [][\A t \in Tasks :
          (resp[t] = NoResp /\ resp'[t] # NoResp) =>
              /\ resp'[t].status = 500 <=>
                    (got[t].inst # None /\ pc[t] = "done" /\ ret[t].kind = "raise")
              /\ resp'[t].status = 500 <=> resp'[t].error = "internal error"]_vars

\* the read route answered 500 after the store failed under find_by_id
C20_Witness ==
    \E t \in Tasks :
        /\ route[t] = "get_user"
        /\ pc[t] = "done"
        /\ op[t] = "find_by_id"
        /\ ret[t] = RetRaise("StorageFault")
        /\ resp[t].status = 500
        /\ resp[t].error = "internal error"

\* C21: when the health_check of a backend returned False, the response of
\* the health endpoint is not a success: its status is not 200 and its body
\* does not say "healthy" overall.
C21_UnhealthyIsNotSuccess ==
    [][\A t \in Tasks :
          (/\ route[t] = "health"
           /\ resp[t] = NoResp
           /\ resp'[t] # NoResp
           /\ \E tag \in Backends : probes[tag].result = "False")
          => /\ resp'[t].status # 200
             /\ resp'[t].body # "healthy"]_vars

\* C22: when the adapter's operation succeeded, the response is 201 with the
\* User create returned, 200 with the User find_by_id or update returned, and
\* 200 with {"success": True} when delete returned True; none of them
\* carries an error payload.
C22_SuccessMapping ==
    [][\A t \in Tasks :
          (resp[t] = NoResp /\ resp'[t] # NoResp /\ pc[t] = "done") =>
              /\ (op[t] = "create" /\ ret[t].kind = "user")
                    => resp'[t] = [NoResp EXCEPT !.status = 201, !.body = "user",
                                                !.user = ret[t].user]
              /\ (op[t] \in {"find_by_id", "update"} /\ ret[t].kind = "user")
                    => resp'[t] = [NoResp EXCEPT !.status = 200, !.body = "user",
                                                !.user = ret[t].user]
              /\ (op[t] = "delete" /\ ret[t] = RetBool(TRUE))
                    => resp'[t] = [NoResp EXCEPT !.status = 200,
                                                !.body = "success"]]_vars

\* the create route answered 201 with the User the adapter's create returned
C22_Witness ==
    \E t \in Tasks :
        /\ route[t] = "create_user"
        /\ pc[t] = "done"
        /\ op[t] = "create"
        /\ ret[t].kind = "user"
        /\ resp[t].status = 201
        /\ resp[t].body = "user"
        /\ resp[t].user = ret[t].user

\* C23: when an update(id, patch) and a delete(id) of concurrent handlers
\* have both completed and the delete returned True, the store holds no
\* record, complete or partial, under id.
C23_UpdateNeverCreates ==
    \A t1, t2 \in Tasks :
        (/\ pc[t1] = "done"
         /\ op[t1] = "update"
         /\ pc[t2] = "done"
         /\ op[t2] = "delete"
         /\ arg[t2] = arg[t1]
         /\ ret[t2] = RetBool(TRUE))
        => KeyOf(arg[t1]) \notin DOMAIN store

\* C24: on redis, the step that ends a delete_all removes exactly the keys
\* its enumeration returned: every other key of the store, such as the key
\* of a user whose create wrote it after the enumeration, stays with its hash
\* unchanged.
C24_DeleteAllNotAtomic ==
    [][backend = "redis" =>
          \A t \in Tasks :
              (/\ op[t] = "delete_all"
               /\ pc[t] \notin {"idle", "done"}
               /\ pc'[t] = "done"
               /\ ret'[t] = RetVoid)
              => /\ \A k \in loc[t].keys : k \notin DOMAIN store'
                 /\ \A k \in DOMAIN store \ loc[t].keys :
                        k \in DOMAIN store' /\ store'[k] = store[k]]_vars

\* on redis a delete_all that enumerated some keys has returned, and the
\* user another handler's create returned meanwhile, whose key was not among
\* them, is stored as created
C24_Witness ==
    \E t, u \in Tasks :
        /\ backend = "redis"
        /\ pc[t] = "done"
        /\ op[t] = "delete_all"
        /\ ret[t] = RetVoid
        /\ loc[t].keys # {}
        /\ pc[u] = "done"
        /\ op[u] = "create"
        /\ ret[u].kind = "user"
        /\ RdKey(Get(ret[u].user).id) \notin loc[t].keys
        /\ RdKey(Get(ret[u].user).id) \in DOMAIN store
        /\ StoredUser(RdKey(Get(ret[u].user).id)) = Get(ret[u].user)

\* C25: on every adapter, in a sequential run, find_by_id(i) called after
\* update(i, patch) returned a User, with no update, delete or delete_all
\* started on i in between, returns a User equal to it, when it returns; and
\* the User an update returned carries the id its row was created with.
C25_UpdateFindAgree ==
    /\ \A n \in DOMAIN patched :
          /\ n \in created
          /\ patched[n].id = FormatId(n)
    /\ \A t \in Tasks :
          (/\ pc[t] = "done"
           /\ op[t] = "find_by_id"
           /\ ret[t].kind # "raise"
           /\ arg[t].form = "canon"
           /\ arg[t].n \in DOMAIN patched)
          => ret[t] = RetUser(patched[arg[t].n])

\* a find_by_id gave back the User an update of one field had returned
C25_Witness ==
    \E t \in Tasks :
        /\ pc[t] = "done"
        /\ op[t] = "find_by_id"
        /\ arg[t].form = "canon"
        /\ arg[t].n \in DOMAIN patched
        /\ ret[t] = RetUser(patched[arg[t].n])
        /\ Get(ret[t].user).name = "Bob"

\* C26: when the key-value adapter's find_by_id has answered for a key whose
\* stored hash is corrupt (name or email missing, or a favoriteNumber field
\* that is present but is not a decimal integer), the answer is None and no
\* exception; when the hash has name and email and no favoriteNumber, the
\* answer is a User whose favoriteNumber is absent.
C26_CorruptIsNone ==
    \A t \in Tasks :
        (backend = "redis" /\ pc[t] = "done" /\ op[t] = "find_by_id"
            /\ RdKey(arg[t]) \in DOMAIN store) =>
        LET h == store[RdKey(arg[t])]
            text == Get(h.fav).v
            decimal == /\ Get(h.fav).utf8
                       /\ \/ AllDigits(text)
                          \/ /\ text # <<>>
                             /\ text[1] \in {"-", "+"}
                             /\ AllDigits(Tail(text))
            corrupt == \/ h.name = None
                       \/ h.email = None
                       \/ h.fav # None /\ ~decimal
        IN /\ corrupt => ret[t] = RetNone
           /\ (~corrupt /\ h.fav = None) =>
                  /\ ret[t].kind = "user"
                  /\ Get(ret[t].user).favoriteNumber = None

\* C27: as long as initialize_databases has not run since the registry was
\* last cleared by disconnect_databases, every tag that has an adapter in
\* the registry is one some resolve_repository call asked for since then;
\* and a resolve_repository call for one tag constructs no adapter for
\* another tag and leaves the other tags' registry entries as they were.
C27_LazyRegistry ==
    /\ [](~lazy.eager =>
            \A tag \in Backends :
                InRegistry(repositories, tag) => tag \in lazy.asked)
    /\ [][\A t \in Tasks :
            (got[t] = NoGot /\ got'[t] # NoGot) =>
                \A other \in Backends \ {got'[t].tag} :
                    /\ built'[other] = built[other]
                    /\ InRegistry(repositories', other)
                           <=> InRegistry(repositories, other)]_vars

\* A resolve after a clear: the tag asked for is constructed a second time,
\* while a tag that only initialize_databases had constructed before the
\* clear stays out of the registry.
C27_Witness ==
    /\ ~lazy.eager
    /\ \E a \in Backends, b \in Backends :
          /\ a # b
          /\ InRegistry(repositories, a)
          /\ a \in lazy.asked
          /\ built[a] = 2
          /\ ~InRegistry(repositories, b)
          /\ built[b] = 1
          /\ \A t \in Tasks : got[t].tag # b

\* C28: cassandra's executor never runs more than max_workers = 4 blocking
\* driver calls at the same time, however many requests are in _execute; a
\* job that is not running or finished is in the work queue; and every
\* queued job is eventually executed and its caller resumed.
C28_PoolBound ==
    /\ [](/\ Cardinality(InFlight(executor)) <= max_workers
          /\ \A c \in Callers :
                executor.fut[c] = "queued"
                    <=> \E i \in 1..Len(executor.queue) : executor.queue[i] = c)
    /\ \A c \in Callers :
          /\ executor.fut[c] = "queued" ~> executor.fut[c] = "running"
          /\ executor.fut[c] = "queued" ~> executor.fut[c] = ""

\* More requests than threads: four driver calls run and a fifth job waits.
C28_Witness ==
    /\ Cardinality(InFlight(executor)) = max_workers
    /\ executor.queue # <<>>
    /\ executor.threads = max_workers

\* C29: when create has returned a User, the store holds exactly one record
\* more than when the call started: it is stored under the returned id, which
\* no record had before, it holds the name and the email of the input and
\* its favoriteNumber when the input has one (and none otherwise), and every
\* record stored before is there unchanged.  This for each of the adapters.
C29_CreateAddsOne ==
    \A t \in Tasks :
        (pc[t] = "done" /\ op[t] = "create" /\ ret[t].kind = "user") =>
        LET id == Get(ret[t].user).id
            k == IF backend = "redis" THEN RdKey(id) ELSE id.n
            d == data[t]
            row == IF backend = "redis"
                   THEN Row(Some(Encode(d.name)), Some(Encode(d.email)),
                            IF d.favoriteNumber = None THEN None
                            ELSE Some(Encode(StrOfInt(Get(d.favoriteNumber)))))
                   ELSE Row(Some(d.name), Some(d.email), d.favoriteNumber)
        IN /\ id.form = "canon"
           /\ k \notin DOMAIN store0[t]
           /\ DOMAIN store = DOMAIN store0[t] \cup {k}
           /\ store[k] = row
           /\ \A x \in DOMAIN store0[t] : store[x] = store0[t][x]

\* A create with a favoriteNumber that returned while another user was stored.
C29_Witness ==
    \E t \in Tasks :
        /\ pc[t] = "done"
        /\ op[t] = "create"
        /\ ret[t].kind = "user"
        /\ data[t].favoriteNumber = Some(0)
        /\ DOMAIN store0[t] # {}
        /\ Cardinality(DOMAIN store) = Cardinality(DOMAIN store0[t]) + 1

\* C10: when disconnect_databases ends with the fault of one adapter's
\* disconnect, disconnect was invoked on every other adapter of the registry.
C10_DisconnectFaultIsolated ==
    (dpc = "done" /\ dret = "DisconnectFault") =>
        \A i \in 1..Len(repositories) :
            \E j \in 1..Len(dcalls) : dcalls[j] = repositories[i].inst

====
